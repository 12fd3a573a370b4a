------------------------------- MODULE Alerts -------------------------------
(***************************************************************************)
(* What JavaScript sees of a libtorrent alert: alert_wrapper.cpp gives the *)
(* object of each kind its properties by name, and the handlers of core.js *)
(* and the plugins read them by name, with no compiler in between.  Only   *)
(* the properties that are always set count; error, set where the alert    *)
(* has one, is left out.  The tables are compared by ASSUMEs, which TLC    *)
(* evaluates with the engine's run: none of it depends on a state.         *)
(***************************************************************************)
EXTENDS Bindings

\* The initialize overloads of the base classes.
Plain(own)   == {"_message", "name", "type"} \cup own
Torrent(own) == Plain({"torrent"} \cup own)
Peer(own)    == Torrent({"ip", "peerId"} \cup own)
Tracker(own) == Torrent({"url"} \cup own)

FileAlerts ==
  [ save_resume_data_alert   |-> Torrent({"resumeData"}),
    torrent_removed_alert    |-> Torrent({"infoHash"}),
    read_piece_alert         |-> Torrent({"index", "size", "buffer"}),
    file_completed_alert     |-> Torrent({"index"}),
    file_renamed_alert       |-> Torrent({"index", "name"}),
    file_rename_failed_alert |-> Torrent({"index"}) ]

TrackerAlerts ==
  [ performance_alert      |-> Torrent({"code"}),
    state_changed_alert    |-> Torrent({"state", "previousState"}),
    tracker_error_alert    |-> Tracker({"statusCode", "times", "message"}),
    tracker_warning_alert  |-> Tracker({"message"}),
    scrape_reply_alert     |-> Tracker({"complete", "incomplete"}),
    scrape_failed_alert    |-> Tracker({"message"}),
    tracker_reply_alert    |-> Tracker({"numPeers"}),
    dht_reply_alert        |-> Tracker({"numPeers"}),
    tracker_announce_alert |-> Tracker({"event"}) ]

PeerAlerts ==
  [ hash_failed_alert       |-> Torrent({"pieceIndex"}),
    peer_ban_alert          |-> Peer({}),
    peer_snubbed_alert      |-> Peer({}),
    peer_unsnubbed_alert    |-> Peer({}),
    peer_error_alert        |-> Peer({}),
    peer_connect_alert      |-> Peer({"socketType"}),
    peer_disconnected_alert |-> Peer({}),
    invalid_request_alert   |-> Peer({"request"}) ]

Block == {"blockIndex", "pieceIndex"}

PieceAlerts ==
  [ torrent_finished_alert  |-> Torrent({}),
    piece_finished_alert    |-> Torrent({"pieceIndex"}),
    request_dropped_alert   |-> Peer(Block),
    block_timeout_alert     |-> Peer(Block),
    block_finished_alert    |-> Peer(Block),
    block_downloading_alert |-> Peer(Block \cup {"speedMessage"}),
    unwanted_block_alert    |-> Peer(Block) ]

StorageAlerts ==
  [ storage_moved_alert           |-> Torrent({"path"}),
    storage_moved_failed_alert    |-> Torrent({}),
    torrent_deleted_alert         |-> Torrent({"infoHash"}),
    torrent_delete_failed_alert   |-> Torrent({"infoHash"}),
    save_resume_data_failed_alert |-> Torrent({}),
    torrent_paused_alert          |-> Torrent({}),
    torrent_resumed_alert         |-> Torrent({}),
    torrent_checked_alert         |-> Torrent({}),
    url_seed_alert                |-> Torrent({"url", "message"}),
    file_error_alert              |-> Torrent({"file"}),
    metadata_failed_alert         |-> Torrent({}),
    metadata_received_alert       |-> Torrent({}) ]

ListenAlerts ==
  [ udp_error_alert           |-> Plain({"ip"}),
    external_ip_alert         |-> Plain({"address"}),
    listen_failed_alert       |-> Plain({"ip", "operation", "socketType"}),
    listen_succeeded_alert    |-> Plain({"ip", "socketType"}),
    portmap_error_alert       |-> Plain({"mapping", "type"}),
    portmap_alert             |-> Plain({"mapping", "type", "externalPort"}),
    portmap_log_alert         |-> Plain({"type", "message"}),
    fastresume_rejected_alert |-> Torrent({}),
    peer_blocked_alert        |-> Torrent({"address", "reason"}) ]

Channels == {"downloadDhtProtocol", "downloadIpProtocol", "downloadPayload", "downloadProtocol",
             "downloadTrackerProtocol", "uploadDhtProtocol", "uploadIpProtocol", "uploadPayload",
             "uploadProtocol", "uploadTrackerProtocol"}

SessionAlerts ==
  [ dht_get_peers_alert       |-> Plain({"infoHash"}),
    stats_alert               |-> Torrent(Channels \cup {"interval"}),
    cache_flushed_alert       |-> Torrent({}),
    lsd_peer_alert            |-> Peer({}),
    trackerid_alert           |-> Torrent({"trackerId"}),
    dht_bootstrap_alert       |-> Plain({}),
    rss_alert                 |-> Plain({"url", "state", "feed"}),
    torrent_error_alert       |-> Torrent({}),
    torrent_need_cert_alert   |-> Torrent({}),
    incoming_connection_alert |-> Plain({"ip", "socketType"}) ]

AddAlerts ==
  [ torrent_added_alert  |-> Torrent({}),
    add_torrent_alert    |-> Torrent({"params"}),
    state_update_alert   |-> Plain({"status"}),
    torrent_update_alert |-> Torrent({"oldInfoHash", "infoHash"}),
    i2p_alert            |-> Plain({}) ]

Fields ==
  FileAlerts @@ TrackerAlerts @@ PeerAlerts @@ PieceAlerts @@ StorageAlerts @@ ListenAlerts
  @@ SessionAlerts @@ AddAlerts

\* construct's switch has no case for this one, although there is an initialize for it:
\* like the kinds that it does not know it becomes null.
NoCase == {"incoming_connection_alert"}

\* The properties of the event object; none for null.
Properties(a) == IF a \in DOMAIN Fields \ NoCase THEN Fields[a] ELSE {}

\* eventMap: the events that scripts may listen to.
EventMap ==
     "peer.blockDownloading" :> "block_downloading_alert"
  @@ "peer.blockFinished" :> "block_finished_alert"
  @@ "peer.blockTimeout" :> "block_timeout_alert"
  @@ "torrent.cacheFlushed" :> "cache_flushed_alert"
  @@ "dht.bootstrap" :> "dht_bootstrap_alert"
  @@ "dht.reply" :> "dht_reply_alert"
  @@ "externalAddress" :> "external_ip_alert"
  @@ "file.completed" :> "file_completed_alert"
  @@ "file.error" :> "file_error_alert"
  @@ "file.renamed" :> "file_renamed_alert"
  @@ "file.renameFailed" :> "file_rename_failed_alert"
  @@ "torrent.hashFailed" :> "hash_failed_alert"
  @@ "incomingConnection" :> "incoming_connection_alert"
  @@ "listenSucceeded" :> "listen_succeeded_alert"
  @@ "peer.lsd" :> "lsd_peer_alert"
  @@ "torrent.metadataFailed" :> "metadata_failed_alert"
  @@ "torrent.metadataReceived" :> "metadata_received_alert"
  @@ "peer.ban" :> "peer_ban_alert"
  @@ "peer.blocked" :> "peer_blocked_alert"
  @@ "peer.connect" :> "peer_connect_alert"
  @@ "peer.disconnected" :> "peer_disconnected_alert"
  @@ "peer.error" :> "peer_error_alert"
  @@ "peer.snubbed" :> "peer_snubbed_alert"
  @@ "peer.unsnubbed" :> "peer_unsnubbed_alert"
  @@ "torrent.performanceWarning" :> "performance_alert"
  @@ "piece.finished" :> "piece_finished_alert"
  @@ "peer.requestDropped" :> "request_dropped_alert"
  @@ "tracker.scrapeReply" :> "scrape_reply_alert"
  @@ "tracker.scrapeFailed" :> "scrape_failed_alert"
  @@ "torrent.stateChanged" :> "state_changed_alert"
  @@ "torrent.stateUpdate" :> "state_update_alert"
  @@ "torrent.stats" :> "stats_alert"
  @@ "torrent.moved" :> "storage_moved_alert"
  @@ "torrent.moveFailed" :> "storage_moved_failed_alert"
  @@ "torrent.add" :> "add_torrent_alert"
  @@ "torrent.added" :> "torrent_added_alert"
  @@ "torrent.checked" :> "torrent_checked_alert"
  @@ "torrent.deleted" :> "torrent_deleted_alert"
  @@ "torrent.deleteFailed" :> "torrent_delete_failed_alert"
  @@ "torrent.error" :> "torrent_error_alert"
  @@ "torrent.finished" :> "torrent_finished_alert"
  @@ "torrent.needCertificate" :> "torrent_need_cert_alert"
  @@ "torrent.paused" :> "torrent_paused_alert"
  @@ "torrent.resumed" :> "torrent_resumed_alert"
  @@ "torrent.removed" :> "torrent_removed_alert"
  @@ "torrent.hashUpdated" :> "torrent_update_alert"
  @@ "tracker.id" :> "trackerid_alert"
  @@ "tracker.announce" :> "tracker_announce_alert"
  @@ "tracker.error" :> "tracker_error_alert"
  @@ "tracker.reply" :> "tracker_reply_alert"
  @@ "tracker.warning" :> "tracker_warning_alert"
  @@ "peer.unwantedBlock" :> "unwanted_block_alert"
  @@ "torrent.urlSeed" :> "url_seed_alert"
  @@ "rss" :> "rss_alert"

\* What the handlers read of their event: core.js' and rss.js', then the plugins'.
CoreReads ==
  "torrent.removed"            :> {"infoHash"}
  @@ "torrent.metadataReceived" :> {"torrent"}
  @@ "torrent.add"             :> {"params", "torrent"}
  @@ "torrent.added"           :> {"torrent"}
  @@ "torrent.checked"         :> {"torrent"}
  @@ "torrent.hashUpdated"     :> {"torrent", "oldInfoHash"}
  @@ "torrent.stateUpdate"     :> {"status"}
RssReads == "rss" :> {"state", "url", "feed"}
PluginReads ==
  "torrent.add" :> {"torrent"} @@ "torrent.added" :> {"torrent"}
  @@ "torrent.finished" :> {"torrent"}

\* What saveTorrents reads of the alerts it takes itself.
SaveReads == "save_resume_data_alert" :> {"name", "resumeData", "torrent"}
             @@ "save_resume_data_failed_alert" :> {"name"}

\* Every object that reaches a registered handler, or saveTorrents, has all that is read:
\* core.js' handlers are there from its first line on, the others once its load has come to
\* their modules.
Fit(readers) ==
  \A reads \in readers : \A e \in DOMAIN reads : reads[e] \subseteq Properties(EventMap[e])

ASSUME CoreAlertsFit ==
  /\ Fit({CoreReads})
  /\ \A a \in DOMAIN SaveReads : SaveReads[a] \subseteq Properties(a)
  /\ {e \in DOMAIN EventMap : Properties(EventMap[e]) = {}} = {"incomingConnection"}

ASSUME ModuleAlertsFit == Fit({RssReads, PluginReads})

\* So do libtorrent's other objects, but for the queue position in webui.list, which is
\* the handle's (webui_list.js:47), for uTP, which the settings have not (core.js:303-304,
\* webui_setSettings.js:117-118), for the code of the error of an add (core.js:64), which
\* has its number as value, and for the seed action remove, which throws (core.js:165).
ASSUME BindingsFit ==
  /\ Undefined = {"status"} \X {"queuePosition"} \cup {"error"} \X {"code"}
                 \cup {"settings"} \X {"enableOutgoingUtp", "enableIncomingUtp"}
  /\ Throwing = [o : {"session"}, f : {"removeTorrent"}, n : {1}]
=============================================================================
