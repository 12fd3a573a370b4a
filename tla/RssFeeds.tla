------------------------------ MODULE RssFeeds ------------------------------
(***************************************************************************)
(* rss.js: the configured feeds, the items that each has downloaded, and   *)
(* the file .rss_state that carries them from one process to the next.     *)
(*                                                                         *)
(* libtorrent polls the feeds, those of earlier configurations among them  *)
(* since .session_state brings them back, and posts alerts; what a feed    *)
(* publishes is read when its alert is handled.  A filter is the set of    *)
(* items that it lets through, a history the set of the items in it.       *)
(***************************************************************************)
EXTENDS Intake, SequencesExt

CONSTANTS Urls,         \* addresses of feeds
          UrlOf,        \* the feed of each item
          FeedConfigs,  \* what users write under "feeds": sequences of
                        \* [url, wants (the items its filter matches), dryRun]
          MaxAlerts     \* bound: rss_alerts waiting

ASSUME FeedsAssumption ==
  /\ UrlOf \in [Items -> Urls] /\ MaxAlerts \in Nat
  /\ FeedConfigs \subseteq Seq([url : Urls, wants : SUBSET Items, dryRun : BOOLEAN])

VARIABLES
  configured,  \* "feeds" in hadouken.json
  published,   \* the items that the feeds have now
  rssAlerts,   \* rss_alerts waiting for their handler
  listening,   \* rss.load has registered onRss
  feeds,       \* rss.js' feeds; cell: where in histories its history is
  histories,   \* the history arrays of this process
  saved,       \* .rss_state
  asked,       \* history: items once given to the session and not forgotten since
  twice        \* history: items given to it once more while they were in asked

outsideVars == <<configured, published>>
rssJsVars   == <<listening, feeds, histories>>
askedVars   == <<asked, twice>>
rssVars     == <<outsideVars, rssAlerts, rssJsVars, saved, askedVars>>

NoHistory == [u \in Urls |-> {}]
NoState   == [kind |-> "none", urls |-> {}, history |-> NoHistory]

RssInit ==
  /\ configured \in FeedConfigs /\ published = {} /\ rssAlerts = <<>>
  /\ listening = FALSE /\ feeds = <<>> /\ histories = <<>>
  /\ saved = NoState /\ asked = {} /\ twice = {}

-----------------------------------------------------------------------------
(* Users and feeds *)

Configure ==
  /\ Change /\ phase = "down"
  /\ configured' \in FeedConfigs \ {configured}
  /\ UNCHANGED <<phase, at, stage, dropped, refused, published, rssAlerts, rssJsVars, saved,
                 askedVars>>

\* A feed publishes an item, or drops it.
Publish(x) ==
  /\ Change
  /\ published' = IF x \in published THEN published \ {x} ELSE published \cup {x}
  /\ UNCHANGED <<phase, at, stage, dropped, refused, configured, rssAlerts, rssJsVars, saved,
                 askedVars>>

\* libtorrent begins to update a feed, has updated it or could not.
PostRss(u, state) ==
  /\ Change /\ phase = "run" /\ Len(rssAlerts) < MaxAlerts
  /\ rssAlerts' = Append(rssAlerts, [url |-> u, state |-> state])
  /\ UNCHANGED <<phase, at, stage, dropped, refused, outsideVars, rssJsVars, saved, askedVars>>

-----------------------------------------------------------------------------
(* rss.load, a part of core.js' load *)

\* The first feed with the url: Feed.find.  0: there is none.
Find(list, u) ==
  LET with == {i \in 1..Len(list) : list[i].url = u}
  IN IF with = {} THEN 0 ELSE CHOOSE i \in with : \A j \in with : i <= j

\* Mutant: the saved histories are not read.
LoadFresh(ok) ==
  /\ listening' = ok
  /\ feeds' = IF ok /\ saved.kind # "torn"
                THEN [i \in 1..Len(configured) |->
                        [url |-> configured[i].url, wants |-> configured[i].wants,
                         dryRun |-> configured[i].dryRun, cell |-> i]]
                ELSE <<>>
  /\ histories' = [i \in 1..Len(feeds') |-> {}]

\* onRss is registered first; JSON.parse throws on a torn state and the feeds stay
\* empty.  Feeds that share a url share the array that the state has for it, while
\* each has an array of its own when the state has none.  ok: load came this far.
LoadFeeds(ok) ==
  /\ listening' = ok
  /\ feeds' = IF ok /\ saved.kind # "torn"
                THEN [i \in 1..Len(configured) |->
                        [url    |-> configured[i].url,
                         wants  |-> configured[i].wants,
                         dryRun |-> configured[i].dryRun,
                         cell   |-> IF configured[i].url \in saved.urls
                                      THEN Find(configured, configured[i].url) ELSE i]]
                ELSE <<>>
  /\ histories' = [i \in 1..Len(feeds') |-> saved.history[feeds'[i].url]]

-----------------------------------------------------------------------------
(* onRss *)

Matches(f, x) == UrlOf[x] = f.url /\ x \in f.wants

\* What onRss downloads for the feed f.
Fresh(f) == {x \in published : Matches(f, x) /\ x \notin histories[f.cell]}

Ask(new) ==
  /\ AddTorrents(new)
  /\ asked' = asked \cup new
  /\ twice' = twice \cup (new \cap asked)

\* The alert is of an update that goes on or failed, nobody listens, or the feed is
\* not configured (any more).
DropRss ==
  /\ phase = "run" /\ at = 0 /\ rssAlerts # <<>>
  /\ \/ Head(rssAlerts).state # "updated"
     \/ ~listening
     \/ Find(feeds, Head(rssAlerts).url) = 0
  /\ rssAlerts' = Tail(rssAlerts)
  /\ UNCHANGED <<phase, at, stage, dropped, refused, changes, outsideVars, rssJsVars, saved,
                 askedVars>>

HandleRss ==
  /\ phase = "run" /\ at = 0 /\ rssAlerts # <<>>
  /\ Head(rssAlerts).state = "updated" /\ listening
  /\ LET i   == Find(feeds, Head(rssAlerts).url)
         f   == feeds[i]
         new == IF f.dryRun THEN {} ELSE Fresh(f)
     IN /\ i # 0
        /\ Ask(new)
        /\ histories' = [histories EXCEPT ![f.cell] = @ \cup new]
  /\ rssAlerts' = Tail(rssAlerts)
  /\ UNCHANGED <<phase, at, changes, outsideVars, listening, feeds, saved>>

-----------------------------------------------------------------------------
(* rss.unload and the end of the process *)

\* fs.writeText cuts the file to nothing ...
OpenState ==
  /\ saved' = [NoState EXCEPT !.kind = "torn"]
  /\ UNCHANGED <<outsideVars, rssAlerts, rssJsVars, askedVars>>

\* state[feeds[i].url] = feeds[i].history: the last feed with a url decides.
LastWith(u) ==
  CHOOSE i \in 1..Len(feeds) :
    feeds[i].url = u /\ \A j \in 1..Len(feeds) : feeds[j].url = u => j <= i

FeedUrls == {feeds[i].url : i \in 1..Len(feeds)}

\* Feeds with the same url whose arrays are two: the first grows, the last is saved.
Split(u) == \E i, j \in 1..Len(feeds) :
              feeds[i].url = u /\ feeds[j].url = u /\ feeds[i].cell # feeds[j].cell

\* ... and writes what this process has.  The items of a feed that it had not loaded
\* are forgotten, and those of a feed that was split.
WriteState ==
  /\ saved' = [kind    |-> "whole",
               urls    |-> FeedUrls,
               history |-> [u \in Urls |-> IF u \in FeedUrls
                                             THEN histories[feeds[LastWith(u)].cell] ELSE {}]]
  /\ asked' = {x \in asked : UrlOf[x] \in FeedUrls /\ ~Split(UrlOf[x])}
  /\ UNCHANGED twice

\* A process that ends before that write has forgotten what the file does not say.
ForgetFeeds ==
  /\ rssAlerts' = <<>> /\ listening' = FALSE /\ feeds' = <<>> /\ histories' = <<>>
  /\ UNCHANGED outsideVars

LoseHistories ==
  /\ asked' = {x \in asked : x \in saved.history[UrlOf[x]]}
  /\ UNCHANGED <<saved, twice>>

Outside ==
  \/ Configure
  \/ \E x \in Items : Publish(x)
  \/ \E u \in Urls, s \in {"updating", "updated", "error"} : PostRss(u, s)

RssTypeOK ==
  /\ configured \in FeedConfigs /\ published \subseteq Items /\ listening \in BOOLEAN
  /\ rssAlerts \in Seq([url : Urls, state : {"updating", "updated", "error"}])
  /\ Len(rssAlerts) <= MaxAlerts
  /\ feeds \in Seq([url : Urls, wants : SUBSET Items, dryRun : BOOLEAN, cell : Nat])
  /\ histories \in Seq(SUBSET Items) /\ Len(histories) = Len(feeds)
  /\ \A i \in 1..Len(feeds) : feeds[i].cell \in 1..i
  /\ saved \in [kind : {"none", "torn", "whole"}, urls : SUBSET Urls,
                history : [Urls -> SUBSET Items]]
  /\ asked \subseteq Items /\ twice \subseteq Items
=============================================================================
