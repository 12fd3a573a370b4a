--------------------------- MODULE Engine_proofs ---------------------------
(***************************************************************************)
(* What the scripts have found is not lost and not found twice, for any    *)
(* files, folders, feeds and configurations, and without a bound on what   *)
(* users, feeds and crashes do but that it is a number; what the scripts   *)
(* do to a torrent keeps to its way, which the store implements; and a     *)
(* tick ends, whatever goes on in the folders.                             *)
(***************************************************************************)
EXTENDS Engine, FiniteSetTheorems, SequenceLemmas, TLAPS

-----------------------------------------------------------------------------
(* The first and the last index *)

\* A set of indices has a least one: the numbers below all of them are as many as that.
LEMMA LeastIndex ==
  ASSUME NEW n \in Nat, NEW T \in SUBSET (1..n), T # {}
  PROVE  \E x \in T : \A y \in T : x <= y
<1> DEFINE below == {k \in 0..n : \A y \in T : k < y}
           c == Cardinality(below)
<1>1. IsFiniteSet(0..n) /\ below \in SUBSET (0..n)
  BY FS_Interval
<1>2. IsFiniteSet(below) /\ c \in Nat
  BY <1>1, FS_Subset, FS_CardinalityType
<1>3. 0 \in below
  OBVIOUS
<1>4. ASSUME NEW k \in below PROVE k < c
  <2>1. k \in Nat /\ 0..k \subseteq below
    OBVIOUS
  <2>2. Cardinality(0..k) = k + 1
    BY <2>1, FS_Interval
  <2>3. Cardinality(0..k) <= c
    BY <2>1, <1>2, FS_Subset
  <2> QED
    BY <2>1, <2>2, <2>3, <1>2
<1>5. below \subseteq 0..(c - 1) /\ c >= 1
  BY <1>2, <1>3, <1>4
<1>6. IsFiniteSet(0..(c - 1)) /\ Cardinality(0..(c - 1)) = c
  BY <1>2, <1>5, FS_Interval
<1>7. below = 0..(c - 1)
  BY <1>2, <1>5, <1>6, FS_Subset
<1> HIDE DEF c
<1>8. c - 1 \in below /\ c \notin below
  <2> HIDE DEF below
  <2> QED
    BY <1>2, <1>5, <1>7
<1>9. c \in 0..n
  <2>1. PICK t \in T : TRUE
    OBVIOUS
  <2> QED
    BY <2>1, <1>2, <1>8
<1>10. PICK t \in T : ~(c < t)
  BY <1>8, <1>9
<1>11. \A y \in T : c - 1 < y
  BY <1>8
<1>12. t = c
  BY <1>2, <1>10, <1>11
<1> QED
  BY <1>2, <1>11, <1>12

\* And a greatest one, the least from the other end.
LEMMA GreatestIndex ==
  ASSUME NEW n \in Nat, NEW T \in SUBSET (1..n), T # {}
  PROVE  \E x \in T : \A y \in T : y <= x
<1> DEFINE U == {i \in 1..n : n + 1 - i \in T}
<1>1. U \in SUBSET (1..n) /\ \A y \in T : n + 1 - y \in U
  OBVIOUS
<1>2. U # {}
  BY <1>1
<1>3. PICK u \in U : \A y \in U : u <= y
  BY <1>1, <1>2, LeastIndex
<1>4. n + 1 - u \in T
  OBVIOUS
<1>5. ASSUME NEW y \in T PROVE y <= n + 1 - u
  <2>1. u <= n + 1 - y
    BY <1>1, <1>3
  <2> QED
    BY <2>1, u \in 1..n, y \in 1..n
<1> QED
  BY <1>4, <1>5

-----------------------------------------------------------------------------
(* Types *)

\* Adding torrents, moving one on and the end of a process keep Intake's types.
LEMMA IntakeTypes ==
  ASSUME IntakeTypeOK
  PROVE  /\ \A new \in SUBSET Torrents :
              AddTorrents(new) /\ UNCHANGED <<phase, changes>> /\ at' \in Nat => IntakeTypeOK'
         /\ \A t \in Torrents :
              NetAdd(t) \/ NetRefuse(t) \/ NetInfo(t) \/ HandleTold(t) => IntakeTypeOK'
         /\ Forget /\ changes' \in 0..MaxChanges => IntakeTypeOK'
<1>1. ASSUME NEW new \in SUBSET Torrents, AddTorrents(new), UNCHANGED <<phase, changes>>, at' \in Nat
      PROVE  IntakeTypeOK'
  BY <1>1 DEF IntakeTypeOK, AddTorrents, Stages
<1>2. ASSUME NEW t \in Torrents, NetAdd(t) \/ NetRefuse(t) \/ NetInfo(t) \/ HandleTold(t)
      PROVE  IntakeTypeOK'
  BY <1>2 DEF IntakeTypeOK, NetAdd, NetRefuse, NetInfo, HandleTold, Move, Stages
<1>3. ASSUME Forget, changes' \in 0..MaxChanges PROVE IntakeTypeOK'
  BY <1>3 DEF IntakeTypeOK, Forget, Stages
<1> QED
  BY <1>1, <1>2, <1>3

\* The change of a file or a folder concerns nobody else.
LEMMA OtherProgramsTypes ==
  ASSUME IntakeTypeOK, AutoAddTypeOK, OtherPrograms
  PROVE  IntakeTypeOK' /\ AutoAddTypeOK' /\ UNCHANGED <<phase, at, next>>
<1> USE ChangesAssumption DEF IntakeTypeOK, AutoAddTypeOK, Change, scanVars
<1>1. ASSUME NEW f \in Files, NEW c \in Contents, ChangeFile(f, c)
      PROVE  IntakeTypeOK' /\ AutoAddTypeOK' /\ UNCHANGED <<phase, at, next>>
  BY <1>1 DEF ChangeFile
<1>2. ASSUME NEW d \in FolderSet, ChangeFolder(d)
      PROVE  IntakeTypeOK' /\ AutoAddTypeOK' /\ UNCHANGED <<phase, at, next>>
  BY <1>2 DEF ChangeFolder
<1> QED
  BY <1>1, <1>2 DEF OtherPrograms

\* What the callback keeps, and where it leaves the tick.
CallbackKeeps(n) ==
  /\ IntakeTypeOK' /\ AutoAddTypeOK' /\ UNCHANGED phase
  /\ \/ at' = at
     \/ next' = 0 /\ at' = 0
     \/ next' = 0 /\ at # n /\ at' = at + 1

LEMMA CallbackTypes ==
  ASSUME IntakeTypeOK, AutoAddTypeOK, NEW n \in Nat, AutoAddCallback(n)
  PROVE  CallbackKeeps(n)
<1> USE ChangesAssumption, FoldersAssumption, IntervalAssumption
<1>1. Len(Folders) \in Nat /\ at \in Nat
  BY DEF IntakeTypeOK
<1>2. ASSUME Return(n), UNCHANGED <<phase, stage, dropped, refused, changes, folderVars, deleted>>
      PROVE  CallbackKeeps(n)
  <2>1. tick' \in 0..(Interval - 1)
    BY <1>2 DEF Return, AutoAddTypeOK
  <2> QED
    BY <1>1, <1>2, <2>1, SMTT(30)
       DEF CallbackKeeps, IntakeTypeOK, AutoAddTypeOK, Return, IdleScan, folderVars
<1>3. CASE NotDue(n) \/ EndScan(n)
  BY <1>2, <1>3 DEF NotDue, EndScan
<1>4. CASE StartScan \/ OpenFolder
  BY <1>1, <1>4 DEF CallbackKeeps, IntakeTypeOK, AutoAddTypeOK, StartScan, OpenFolder, Looking,
                    folderVars
<1>5. CASE DeleteFile
  BY <1>1, <1>5 DEF CallbackKeeps, IntakeTypeOK, AutoAddTypeOK, DeleteFile, Contents
<1>6. ASSUME NEW f \in Files, SkipFile(f) \/ BadFile(f) PROVE CallbackKeeps(n)
  BY <1>1, <1>6 DEF CallbackKeeps, IntakeTypeOK, AutoAddTypeOK, SkipFile, BadFile, Throw, IdleScan,
                    folderVars
<1>7. ASSUME NEW f \in Files, TakeFile(f) PROVE CallbackKeeps(n)
  <2>1. IntakeTypeOK'
    BY <1>1, <1>7, IntakeTypes, {f} \in SUBSET Torrents DEF TakeFile, Torrents
  <2> QED
    BY <2>1, <1>7 DEF CallbackKeeps, AutoAddTypeOK, TakeFile, folderVars
<1> QED
  BY <1>3, <1>4, <1>5, <1>6, <1>7 DEF AutoAddCallback

\* Find is the first feed with the url, or 0.
LEMMA FindFirst ==
  ASSUME NEW S, NEW list \in Seq(S), NEW u
  PROVE  /\ Find(list, u) \in 0..Len(list)
         /\ Find(list, u) = 0 => \A i \in 1..Len(list) : list[i].url # u
         /\ Find(list, u) # 0 => /\ list[Find(list, u)].url = u
                                 /\ \A i \in 1..Len(list) : list[i].url = u => Find(list, u) <= i
<1> DEFINE with == {i \in 1..Len(list) : list[i].url = u}
<1>1. Len(list) \in Nat
  OBVIOUS
<1>2. CASE with = {}
  BY <1>1, <1>2 DEF Find
<1>3. CASE with # {}
  <2>1. \E i \in with : \A j \in with : i <= j
    BY <1>1, <1>3, with \in SUBSET (1..Len(list)), LeastIndex
  <2>2. Find(list, u) = CHOOSE i \in with : \A j \in with : i <= j
    BY <1>3 DEF Find
  <2> HIDE DEF with
  <2>3. Find(list, u) \in with /\ \A j \in with : Find(list, u) <= j
    BY <2>1, <2>2
  <2> QED
    BY <1>1, <2>3 DEF with
<1> QED
  BY <1>2, <1>3

FeedType == [url : Urls, wants : SUBSET Items, dryRun : BOOLEAN, cell : Nat]

\* LastWith is a feed with the url if there is one.
LEMMA LastFeed ==
  ASSUME feeds \in Seq(FeedType), NEW u \in FeedUrls
  PROVE  LastWith(u) \in 1..Len(feeds) /\ feeds[LastWith(u)].url = u
<1> DEFINE with == {i \in 1..Len(feeds) : feeds[i].url = u}
<1>1. Len(feeds) \in Nat /\ with # {} /\ with \in SUBSET (1..Len(feeds))
  BY DEF FeedUrls
<1>2. PICK x \in with : \A y \in with : y <= x
  BY <1>1, GreatestIndex
<1>3. x \in 1..Len(feeds) /\ feeds[x].url = u
      /\ \A j \in 1..Len(feeds) : feeds[j].url = u => j <= x
  BY <1>2
<1> QED
  BY <1>3 DEF LastWith

\* The feeds of a configuration share a history or have their own, each in its place.
LEMMA LoadTypes ==
  ASSUME RssTypeOK, NEW ok \in BOOLEAN, LoadFeeds(ok),
         UNCHANGED <<outsideVars, rssAlerts, saved, askedVars>>
  PROVE  RssTypeOK'
<1> USE FeedsAssumption
<1>1. configured \in Seq([url : Urls, wants : SUBSET Items, dryRun : BOOLEAN])
  BY DEF RssTypeOK
<1>2. ASSUME NEW i \in 1..Len(configured)
      PROVE  /\ configured[i].url \in Urls /\ configured[i].wants \in SUBSET Items
             /\ configured[i].dryRun \in BOOLEAN
             /\ Find(configured, configured[i].url) \in 1..i
  <2> DEFINE R == [url : Urls, wants : SUBSET Items, dryRun : BOOLEAN]
  <2>1. configured[i] \in R
    <3> HIDE DEF R
    <3>1. configured \in Seq(R)
      BY <1>1 DEF R
    <3> QED
      BY <3>1, ElementOfSeq
  <2>2. Find(configured, configured[i].url) \in 1..i
    BY <1>1, FindFirst
  <2> QED
    BY <2>1, <2>2
<1>3. /\ feeds' \in Seq(FeedType) /\ \A i \in 1..Len(feeds') : feeds'[i].cell \in 1..i
  <2>1. CASE ok /\ saved.kind # "torn"
    <3> DEFINE feed(i) == [url    |-> configured[i].url, wants |-> configured[i].wants,
                           dryRun |-> configured[i].dryRun,
                           cell   |-> IF configured[i].url \in saved.urls
                                        THEN Find(configured, configured[i].url) ELSE i]
    <3>1. feeds' = [i \in 1..Len(configured) |-> feed(i)]
      BY <2>1 DEF LoadFeeds
    <3>2. \A i \in 1..Len(configured) : feed(i) \in FeedType /\ feed(i).cell \in 1..i
      BY <1>2 DEF FeedType
    <3> HIDE DEF feed
    <3>3. Len(configured) \in Nat /\ feeds' \in [1..Len(configured) -> FeedType]
      BY <1>1, <3>1, <3>2
    <3>4. feeds' \in Seq(FeedType) /\ Len(feeds') = Len(configured)
      BY <3>3, FunctionSeq
    <3> QED
      BY <3>1, <3>2, <3>4
  <2>2. CASE ~(ok /\ saved.kind # "torn")
    BY <2>2 DEF LoadFeeds
  <2> QED
    BY <2>1, <2>2
<1>4. histories' \in Seq(SUBSET Items) /\ Len(histories') = Len(feeds')
  <2>1. \A i \in 1..Len(feeds') : feeds'[i].url \in Urls
    <3>1. \A i \in 1..Len(feeds') : feeds'[i] \in FeedType
      BY <1>3, ElementOfSeq
    <3> QED
      BY <3>1 DEF FeedType
  <2>2. saved.history \in [Urls -> SUBSET Items]
    BY DEF RssTypeOK
  <2>3. Len(feeds') \in Nat /\ histories' \in [1..Len(feeds') -> SUBSET Items]
    <3>1. Len(feeds') \in Nat
      BY <1>3, LenProperties
    <3>2. histories' = [i \in 1..Len(feeds') |-> saved.history[feeds'[i].url]]
      BY DEF LoadFeeds
    <3> QED
      BY <2>1, <2>2, <3>1, <3>2
  <2> QED
    BY <2>3, FunctionSeq
<1>5. listening' \in BOOLEAN
  BY DEF LoadFeeds
<1> QED
  BY <1>3, <1>4, <1>5 DEF RssTypeOK, outsideVars, askedVars, FeedType

\* The alert at hand: the feed it is of, where its history is, and what is new.
LEMMA Alert ==
  ASSUME IntakeTypeOK, RssTypeOK, HandleRss
  PROVE  LET u   == Head(rssAlerts).url
             i   == Find(feeds, u)
             new == IF feeds[i].dryRun THEN {} ELSE Fresh(feeds[i])
         IN /\ u \in Urls /\ i \in 1..Len(feeds) /\ feeds[i].url = u
            /\ feeds[i].cell \in 1..Len(histories)
            /\ new \in SUBSET Items /\ \A x \in new : UrlOf[x] = u /\ x \notin histories[feeds[i].cell]
            /\ AddTorrents(new) /\ asked' = asked \cup new
            /\ twice' = twice \cup (new \cap asked)
            /\ histories' = [histories EXCEPT ![feeds[i].cell] = @ \cup new]
            /\ rssAlerts' = Tail(rssAlerts)
            /\ UNCHANGED <<phase, at, changes, outsideVars, listening, feeds, saved>>
            /\ phase = "run" /\ at = 0
<1> DEFINE u == Head(rssAlerts).url
           i == Find(feeds, u)
           new == IF feeds[i].dryRun THEN {} ELSE Fresh(feeds[i])
           A == [url : Urls, state : {"updating", "updated", "error"}]
<1>1. u \in Urls
  <2>1. rssAlerts \in Seq(A) /\ rssAlerts # <<>>
    BY DEF RssTypeOK, HandleRss
  <2>2. Head(rssAlerts) \in A
    <3> HIDE DEF A
    <3> QED
      BY <2>1, HeadTailProperties
  <2> QED
    BY <2>2
<1>2. feeds \in Seq(FeedType) /\ Len(histories) = Len(feeds) /\ Len(feeds) \in Nat
  BY DEF RssTypeOK, FeedType
<1>3. i # 0
  BY DEF HandleRss
<1>4. i \in 1..Len(feeds) /\ feeds[i].url = u
  <2> HIDE DEF u
  <2> QED
    BY <1>2, <1>3, FindFirst
<1>5. feeds[i].cell \in 1..Len(histories)
  BY <1>2, <1>4 DEF RssTypeOK
<1>6. new \in SUBSET Items /\ \A x \in new : UrlOf[x] = u /\ x \notin histories[feeds[i].cell]
  BY <1>4 DEF Fresh, Matches, RssTypeOK
<1> QED
  BY <1>1, <1>4, <1>5, <1>6 DEF HandleRss, Ask

\* The handlers of rss_alerts keep the types.
LEMMA HandlerTypes ==
  ASSUME IntakeTypeOK, RssTypeOK, DropRss \/ HandleRss
  PROVE  IntakeTypeOK' /\ RssTypeOK' /\ UNCHANGED <<phase, at, feeds>>
<1> DEFINE A == [url : Urls, state : {"updating", "updated", "error"}]
<1>1. rssAlerts' \in Seq(A) /\ Len(rssAlerts') <= MaxAlerts
  <2>1. rssAlerts \in Seq(A) /\ Len(rssAlerts) <= MaxAlerts /\ rssAlerts # <<>>
        /\ rssAlerts' = Tail(rssAlerts)
    BY DEF RssTypeOK, DropRss, HandleRss
  <2> HIDE DEF A
  <2> QED
    BY <2>1, HeadTailProperties, LenProperties, FeedsAssumption
<1>2. CASE DropRss
  BY <1>1, <1>2 DEF DropRss, IntakeTypeOK, RssTypeOK, outsideVars, rssJsVars, askedVars
<1>3. CASE HandleRss
  <2> DEFINE i   == Find(feeds, Head(rssAlerts).url)
             new == IF feeds[i].dryRun THEN {} ELSE Fresh(feeds[i])
  <2>1. /\ feeds[i].cell \in 1..Len(histories) /\ new \in SUBSET Items
        /\ AddTorrents(new) /\ asked' = asked \cup new /\ twice' = twice \cup (new \cap asked)
        /\ histories' = [histories EXCEPT ![feeds[i].cell] = @ \cup new]
        /\ UNCHANGED <<phase, at, changes, outsideVars, listening, feeds, saved>>
    BY <1>3, Alert
  <2> HIDE DEF i, new
  <2>2. IntakeTypeOK'
    BY <2>1, IntakeTypes, new \in SUBSET Torrents DEF Torrents, IntakeTypeOK
  <2>3. histories' \in Seq(SUBSET Items) /\ Len(histories') = Len(histories)
    <3>1. histories \in Seq(SUBSET Items) /\ histories[feeds[i].cell] \cup new \in SUBSET Items
      BY <2>1, ElementOfSeq DEF RssTypeOK
    <3> QED
      BY <2>1, <3>1, ExceptSeq
  <2> QED
    BY <1>1, <2>1, <2>2, <2>3 DEF RssTypeOK, outsideVars
<1> QED
  BY <1>2, <1>3

\* Users and feeds keep them.
LEMMA OutsideTypes ==
  ASSUME IntakeTypeOK, RssTypeOK, Outside
  PROVE  IntakeTypeOK' /\ RssTypeOK' /\ UNCHANGED <<phase, at, feeds>>
<1> USE ChangesAssumption DEF IntakeTypeOK, RssTypeOK, Change, rssJsVars, askedVars
<1>1. CASE Configure
  BY <1>1 DEF Configure
<1>2. ASSUME NEW x \in Items, Publish(x)
      PROVE  IntakeTypeOK' /\ RssTypeOK' /\ UNCHANGED <<phase, at, feeds>>
  BY <1>2 DEF Publish
<1>3. ASSUME NEW v \in Urls, NEW what \in {"updating", "updated", "error"}, PostRss(v, what)
      PROVE  IntakeTypeOK' /\ RssTypeOK' /\ UNCHANGED <<phase, at, feeds>>
  <2> DEFINE A == [url : Urls, state : {"updating", "updated", "error"}]
  <2>1. rssAlerts' \in Seq(A) /\ Len(rssAlerts') <= MaxAlerts
    <3>1. [url |-> v, state |-> what] \in A
      OBVIOUS
    <3>2. rssAlerts \in Seq(A) /\ Len(rssAlerts) < MaxAlerts
          /\ rssAlerts' = Append(rssAlerts, [url |-> v, state |-> what])
      BY <1>3 DEF PostRss
    <3> HIDE DEF A
    <3> QED
      BY <3>1, <3>2, FeedsAssumption, AppendProperties, LenProperties
  <2> QED
    BY <1>3, <2>1 DEF PostRss, outsideVars
<1> QED
  BY <1>1, <1>2, <1>3 DEF Outside

\* The end of a process keeps them, with the state that it leaves.
LEMMA EndTypes ==
  ASSUME IntakeTypeOK, AutoAddTypeOK, RssTypeOK, EndProcess, changes' \in 0..MaxChanges,
         WriteState \/ LoseHistories
  PROVE  IntakeTypeOK' /\ AutoAddTypeOK' /\ RssTypeOK'
<1>1. IntakeTypeOK'
  BY IntakeTypes DEF EndProcess
<1>2. AutoAddTypeOK'
  BY FoldersAssumption DEF EndProcess, IdleScan, AutoAddTypeOK, folderVars
<1>3. saved' \in [kind : {"none", "torn", "whole"}, urls : SUBSET Urls,
                  history : [Urls -> SUBSET Items]] /\ asked' \subseteq Items /\ twice' \subseteq Items
  <2>1. CASE LoseHistories
    BY <2>1 DEF LoseHistories, RssTypeOK
  <2>2. CASE WriteState
    <3>1. /\ feeds \in Seq(FeedType) /\ histories \in Seq(SUBSET Items)
          /\ Len(histories) = Len(feeds) /\ \A i \in 1..Len(feeds) : feeds[i].cell \in 1..i
      BY DEF RssTypeOK, FeedType
    <3>2. FeedUrls \subseteq Urls
      <4>1. \A i \in 1..Len(feeds) : feeds[i] \in FeedType
        BY <3>1, ElementOfSeq
      <4> QED
        BY <4>1 DEF FeedUrls, FeedType
    <3>3. \A u \in FeedUrls : histories[feeds[LastWith(u)].cell] \in SUBSET Items
      <4> TAKE u \in FeedUrls
      <4>1. LastWith(u) \in 1..Len(feeds)
        BY <3>1, LastFeed
      <4>2. feeds[LastWith(u)].cell \in 1..Len(histories)
        BY <3>1, <4>1
      <4> QED
        BY <3>1, <4>2, ElementOfSeq
    <3> QED
      BY <2>2, <3>2, <3>3 DEF WriteState, RssTypeOK
  <2> QED
    BY <2>1, <2>2
<1>4. feeds' = <<>> /\ histories' = <<>> /\ rssAlerts' = <<>> /\ listening' = FALSE
      /\ UNCHANGED <<configured, published>>
  BY DEF EndProcess, ForgetFeeds, outsideVars
<1>5. RssTypeOK'
  <2>1. /\ feeds' \in Seq(FeedType) /\ Len(feeds') = 0
        /\ histories' \in Seq(SUBSET Items) /\ Len(histories') = Len(feeds')
        /\ rssAlerts' \in Seq([url : Urls, state : {"updating", "updated", "error"}])
        /\ Len(rssAlerts') = 0 /\ listening' \in BOOLEAN
    BY <1>4, EmptySeq
  <2>2. configured' \in FeedConfigs /\ published' \subseteq Items /\ MaxAlerts \in Nat
    BY <1>4, FeedsAssumption DEF RssTypeOK
  <2> QED
    BY <1>3, <2>1, <2>2 DEF RssTypeOK, FeedType
<1> QED
  BY <1>1, <1>2, <1>5

\* The process starts with its types.
LEMMA InitTypes == Init => TypeOK
<1> SUFFICES ASSUME Init PROVE TypeOK
  OBVIOUS
<1>1. IntakeTypeOK
  BY ChangesAssumption DEF Init, IntakeInit, IntakeTypeOK, Stages
<1>2. AutoAddTypeOK
  BY FoldersAssumption, IntervalAssumption DEF Init, AutoAddInit, AutoAddTypeOK, Contents
<1>3. RssTypeOK
  <2>1. feeds = <<>> /\ histories = <<>> /\ rssAlerts = <<>>
    BY DEF Init, RssInit
  <2>2. /\ feeds \in Seq(FeedType) /\ Len(feeds) = 0
        /\ histories \in Seq(SUBSET Items) /\ Len(histories) = Len(feeds)
        /\ rssAlerts \in Seq([url : Urls, state : {"updating", "updated", "error"}])
        /\ Len(rssAlerts) = 0
    BY <2>1, EmptySeq
  <2>3. saved \in [kind : {"none", "torn", "whole"}, urls : SUBSET Urls,
                   history : [Urls -> SUBSET Items]]
    BY DEF Init, RssInit, NoState, NoHistory
  <2> QED
    <3>1. configured \in FeedConfigs /\ published \subseteq Items /\ listening \in BOOLEAN
          /\ asked \subseteq Items /\ twice \subseteq Items /\ MaxAlerts \in Nat
      BY FeedsAssumption DEF Init, RssInit
    <3> QED
      BY <2>2, <2>3, <3>1 DEF RssTypeOK, FeedType
<1> QED
  BY <1>1, <1>2, <1>3 DEF Init, IntakeInit, AutoAddInit, RssInit, TypeOK

Idle == <<>>
Lone == <<"updates">>
Busy == <<"autoadd", "updates">>

\* The callbacks there are, and which of them runs.
LEMMA Callbacks ==
  ASSUME TypeOK
  PROVE  /\ callbacks \in {Idle, Lone, Busy} /\ Len(Idle) = 0 /\ Len(Lone) = 1 /\ Len(Busy) = 2
         /\ Busy[1] = "autoadd"
         /\ at \in 0..Len(callbacks) /\ Len(callbacks) \in Nat
         /\ Running("autoadd") <=> callbacks = Busy /\ at = 1
         /\ Running("updates") <=> at # 0 /\ at = Len(callbacks)
         /\ next # 0 => Running("autoadd")
<1>1. /\ Len(Idle) = 0 /\ Len(Lone) = 1 /\ Lone[1] = "updates"
      /\ Len(Busy) = 2 /\ Busy[1] = "autoadd" /\ Busy[2] = "updates"
  BY DEF Idle, Lone, Busy
<1>2. callbacks \in {Idle, Lone, Busy} /\ at \in 0..Len(callbacks) /\ (next # 0 => Running("autoadd"))
  BY DEF TypeOK, Idle, Lone, Busy
<1>3. CASE callbacks = Idle
  <2>1. at = 0 /\ Idle # Busy
    BY <1>1, <1>2, <1>3
  <2> QED
    BY <1>1, <1>2, <1>3, <2>1 DEF Running
<1>4. CASE callbacks = Lone
  <2>1. at = 0 \/ at = 1
    <3>1. at \in 0..1
      BY <1>1, <1>2, <1>4
    <3> QED
      BY <3>1
  <2>2. Lone # Busy
    BY <1>1
  <2> QED
    BY <1>1, <1>2, <1>4, <2>1, <2>2 DEF Running
<1>5. CASE callbacks = Busy
  <2>1. at = 0 \/ at = 1 \/ at = 2
    <3>1. at \in 0..2
      BY <1>1, <1>2, <1>5
    <3> QED
      BY <3>1
  <2> QED
    BY <1>1, <1>2, <1>5, <2>1 DEF Running
<1> QED
  BY <1>2, <1>3, <1>4, <1>5

\* Every step keeps the types, and the place of the tick.
LEMMA StepTypes == TypeOK /\ [Next]_vars => TypeOK'
<1> SUFFICES ASSUME TypeOK, [Next]_vars PROVE TypeOK'
  OBVIOUS
<1>0. /\ IntakeTypeOK /\ AutoAddTypeOK /\ RssTypeOK
      /\ phase = "down" => callbacks = Idle /\ feeds = Idle
  BY DEF TypeOK, Idle
<1>1. ASSUME IntakeTypeOK', AutoAddTypeOK', RssTypeOK', callbacks' \in {Idle, Lone, Busy},
             at' \in 0..Len(callbacks'), next' # 0 => (callbacks' = Busy /\ at' = 1),
             phase' = "down" => callbacks' = Idle /\ feeds' = Idle
      PROVE  TypeOK'
  <2>1. next' # 0 => Running("autoadd")'
    BY <1>1, Callbacks DEF Running
  <2>2. callbacks' \in {<<>>, <<"updates">>, <<"autoadd", "updates">>}
    BY <1>1 DEF Idle, Lone, Busy
  <2>3. phase' = "down" => callbacks' = <<>> /\ feeds' = <<>>
    BY <1>1 DEF Idle
  <2> QED
    BY <1>1, <2>1, <2>2, <2>3 DEF TypeOK
<1>2. ASSUME NEW ok \in BOOLEAN, Load(ok), changes' \in 0..MaxChanges PROVE TypeOK'
  <2>1. RssTypeOK'
    BY <1>0, <1>2, LoadTypes DEF Load
  <2>2. IntakeTypeOK' /\ AutoAddTypeOK'
    BY <1>0, <1>2, IntervalAssumption DEF Load, IntakeTypeOK, AutoAddTypeOK, folderVars
  <2>3. callbacks' \in {Idle, Lone, Busy} /\ phase' = "run"
    BY <1>2 DEF Load, RegisterCallbacks, Idle, Lone, Busy
  <2>4. at' = 0 /\ next' = 0
    BY <1>0, <1>2, Callbacks DEF Load
  <2> QED
    BY <1>1, <2>1, <2>2, <2>3, <2>4, Callbacks
<1>3. CASE LoadAll
  BY <1>0, <1>2, <1>3 DEF LoadAll, IntakeTypeOK
<1>4. CASE LoadFails
  <2>1. changes' \in 0..MaxChanges
    BY <1>0, <1>4, ChangesAssumption DEF LoadFails, IntakeTypeOK, Change
  <2>2. Load(FALSE) /\ FALSE \in BOOLEAN
    BY <1>4 DEF LoadFails
  <2> QED
    BY <1>2, <2>1, <2>2
<1>5. ASSUME UNCHANGED <<autoAddVars, rssVars, callbacks>>
      PROVE  AutoAddTypeOK' /\ RssTypeOK' /\ UNCHANGED <<callbacks, next, feeds>>
  BY <1>0, <1>5 DEF AutoAddTypeOK, RssTypeOK, autoAddVars, rssVars, folderVars, scanVars,
                    outsideVars, rssJsVars, askedVars
<1>6. CASE StartTick
  <2>1. /\ IntakeTypeOK' /\ phase' = phase /\ at' = 1 /\ next = 0 /\ phase # "down"
        /\ callbacks \in {Lone, Busy}
    BY <1>0, <1>6, Callbacks DEF StartTick, IntakeTypeOK, Idle
  <2>2. AutoAddTypeOK' /\ RssTypeOK' /\ UNCHANGED <<callbacks, next, feeds>>
    BY <1>5, <1>6 DEF StartTick
  <2> QED
    BY <1>1, <2>1, <2>2, Callbacks
<1>7. CASE RunAutoAdd
  <2>1. CallbackKeeps(Len(callbacks)) /\ callbacks = Busy /\ at = 1
    BY <1>0, <1>7, Callbacks, CallbackTypes DEF RunAutoAdd
  <2>2. RssTypeOK' /\ UNCHANGED <<callbacks, feeds>>
    BY <1>0, <1>7 DEF RunAutoAdd, RssTypeOK, rssVars, outsideVars, rssJsVars, askedVars
  <2> QED
    BY <1>0, <1>1, <2>1, <2>2, Callbacks DEF CallbackKeeps
<1>8. CASE PostUpdates
  <2>1. IntakeTypeOK' /\ phase' = phase /\ at' = 0 /\ next = 0
    BY <1>0, <1>8, Callbacks DEF PostUpdates, IntakeTypeOK
  <2>2. AutoAddTypeOK' /\ RssTypeOK' /\ UNCHANGED <<callbacks, next, feeds>>
    BY <1>5, <1>8 DEF PostUpdates
  <2> QED
    BY <1>0, <1>1, <2>1, <2>2, Callbacks
<1>9. CASE \/ Network
           \/ (\E t \in Torrents : HandleTold(t)) /\ UNCHANGED <<autoAddVars, rssVars, callbacks>>
  <2>1. IntakeTypeOK' /\ UNCHANGED <<phase, at>>
    BY <1>0, <1>9, IntakeTypes
       DEF Network, RunAdd, NetAdd, NetRefuse, NetInfo, HandleTold, Move
  <2>2. AutoAddTypeOK' /\ RssTypeOK' /\ UNCHANGED <<callbacks, next, feeds>>
    BY <1>5, <1>9 DEF Network, RunAdd
  <2> QED
    BY <1>0, <1>1, <2>1, <2>2, Callbacks
<1>10. CASE (DropRss \/ HandleRss \/ Outside) /\ UNCHANGED <<autoAddVars, callbacks>>
  <2>1. IntakeTypeOK' /\ RssTypeOK' /\ UNCHANGED <<phase, at, feeds>>
    BY <1>0, <1>10, HandlerTypes, OutsideTypes
  <2>2. AutoAddTypeOK' /\ UNCHANGED <<next, callbacks>>
    BY <1>0, <1>10 DEF AutoAddTypeOK, autoAddVars, folderVars, scanVars
  <2> QED
    BY <1>0, <1>1, <2>1, <2>2, Callbacks
<1>11. CASE OtherPrograms /\ UNCHANGED <<rssVars, callbacks>>
  <2>1. IntakeTypeOK' /\ AutoAddTypeOK' /\ UNCHANGED <<phase, at, next>>
    BY <1>0, <1>11, OtherProgramsTypes
  <2>2. RssTypeOK' /\ UNCHANGED <<callbacks, feeds>>
    BY <1>0, <1>11 DEF RssTypeOK, rssVars, outsideVars, rssJsVars, askedVars
  <2> QED
    BY <1>0, <1>1, <2>1, <2>2, Callbacks
<1>12. CASE Stop
  <2>1. IntakeTypeOK' /\ phase' = "stop" /\ at' = at
    BY <1>0, <1>12, ChangesAssumption DEF Stop, Change, IntakeTypeOK
  <2>2. AutoAddTypeOK' /\ RssTypeOK' /\ UNCHANGED <<callbacks, next, feeds>>
    BY <1>5, <1>12 DEF Stop
  <2> QED
    BY <1>1, <2>1, <2>2, Callbacks
<1>13. CASE BeginSave
  <2>1. IntakeTypeOK' /\ AutoAddTypeOK' /\ phase' = "write" /\ UNCHANGED <<at, next, callbacks>>
    BY <1>0, <1>13 DEF BeginSave, IntakeTypeOK, AutoAddTypeOK, autoAddVars, folderVars, scanVars
  <2>2. RssTypeOK'
    BY <1>0, <1>13 DEF BeginSave, OpenState, NoState, NoHistory, RssTypeOK, outsideVars, rssJsVars,
                       askedVars
  <2> QED
    BY <1>1, <2>1, <2>2, Callbacks
<1>14. CASE Exit \/ Crash
  <2>1. IntakeTypeOK' /\ AutoAddTypeOK' /\ RssTypeOK'
    <3>1. changes' \in 0..MaxChanges
      BY <1>0, <1>14, ChangesAssumption DEF Exit, Crash, Change, IntakeTypeOK
    <3> QED
      BY <1>0, <1>14, <3>1, EndTypes DEF Exit, Crash
  <2>2. callbacks' = Idle /\ at' = 0 /\ next' = 0 /\ feeds' = Idle
    BY <1>14 DEF Exit, Crash, EndProcess, Forget, ForgetFeeds, IdleScan, Idle
  <2> QED
    BY <1>1, <2>1, <2>2, Callbacks
<1>15. CASE UNCHANGED vars
  <2>1. IntakeTypeOK' /\ UNCHANGED <<phase, at>>
    BY <1>0, <1>15 DEF vars, IntakeTypeOK
  <2>2. AutoAddTypeOK' /\ RssTypeOK' /\ UNCHANGED <<callbacks, next, feeds>>
    BY <1>5, <1>15 DEF vars
  <2> QED
    BY <1>0, <1>1, <2>1, <2>2, Callbacks
<1>16. CASE Handle
  BY <1>9, <1>10, <1>16 DEF Handle
<1>17. CASE Others
  BY <1>10, <1>11, <1>17 DEF Others
<1>18. CASE Network
  BY <1>9, <1>18
<1> QED
  BY <1>3, <1>4, <1>6, <1>7, <1>8, <1>12, <1>13, <1>14, <1>15, <1>16, <1>17, <1>18
     DEF Next, TickStep

-----------------------------------------------------------------------------
(* Nothing is lost *)

\* A torrent is in the session or on the disk, or libtorrent refused it, or it was on its
\* way when a process ended.
Safe(t) == stage[t] # "none" \/ t \in dropped \/ t \in refused

\* The scripts no longer look for it.
Passed(t) ==
  t \in deleted \/ (\E i \in 1..Len(histories) : t \in histories[i])
  \/ (\E u \in Urls : t \in saved.history[u])

\* The file that autoadd.js is about to delete was added first.
LostInv ==
  /\ taken # "none" => Safe(taken)
  /\ \A t \in Torrents : Passed(t) => Safe(t)

\* A torrent that is safe stays so: nothing takes one back but libtorrent's refusal and
\* the end of a process, which are remembered until it is added again.
LEMMA SafeStays ==
  ASSUME TypeOK, [Next]_vars, NEW t \in Torrents, Safe(t)
  PROVE  Safe(t)'
<1>0. stage \in [Torrents -> Stages]
  BY DEF TypeOK, IntakeTypeOK
<1>1. ASSUME NEW new, AddTorrents(new) PROVE Safe(t)'
  BY <1>0, <1>1 DEF AddTorrents, Safe
<1>2. ASSUME NEW s \in Torrents, NetAdd(s) \/ NetRefuse(s) \/ NetInfo(s) \/ HandleTold(s)
      PROVE  Safe(t)'
  BY <1>0, <1>2 DEF NetAdd, NetRefuse, NetInfo, HandleTold, Move, Safe
<1>3. ASSUME Forget PROVE Safe(t)'
  BY <1>0, <1>3 DEF Forget, Safe, OnTheWay, Stages
<1>4. ASSUME UNCHANGED <<stage, dropped, refused>> PROVE Safe(t)'
  BY <1>4 DEF Safe
<1>5. CASE LoadAll \/ LoadFails \/ StartTick \/ PostUpdates \/ Stop \/ BeginSave
  BY <1>4, <1>5 DEF LoadAll, LoadFails, Load, StartTick, PostUpdates, Stop, BeginSave
<1>6. CASE RunAutoAdd
  BY <1>1, <1>4, <1>6 DEF RunAutoAdd, AutoAddCallback, NotDue, StartScan, OpenFolder, EndScan,
                          SkipFile, BadFile, TakeFile, DeleteFile
<1>7. CASE Handle
  BY <1>1, <1>2, <1>4, <1>7 DEF Handle, DropRss, HandleRss, Ask
<1>8. CASE Network
  BY <1>2, <1>8 DEF Network, RunAdd
<1>9. CASE Others
  BY <1>4, <1>9 DEF Others, OtherPrograms, ChangeFile, ChangeFolder, Outside, Configure, Publish,
                    PostRss
<1>10. CASE Exit \/ Crash
  BY <1>3, <1>10 DEF Exit, Crash, EndProcess
<1>11. CASE UNCHANGED vars
  BY <1>4, <1>11 DEF vars
<1> QED
  BY <1>5, <1>6, <1>7, <1>8, <1>9, <1>10, <1>11 DEF Next, TickStep

\* Each step that lets the scripts pass over a torrent has added it before.
LEMMA StepLost == TypeOK /\ LostInv /\ [Next]_vars => LostInv'
<1> SUFFICES ASSUME TypeOK, LostInv, [Next]_vars PROVE LostInv'
  OBVIOUS
<1>0. /\ Files \subseteq Torrents /\ Items \subseteq Torrents
      /\ taken # "none" => taken \in Torrents /\ Safe(taken)
      /\ \A t \in Torrents : Passed(t) => Safe(t)
      /\ \A t \in Torrents : Safe(t) => Safe(t)'
      /\ stage \in [Torrents -> Stages]
  BY SafeStays DEF Torrents, TypeOK, IntakeTypeOK, AutoAddTypeOK, LostInv
<1>1. ASSUME taken' = "none" \/ taken' = taken, \A t \in Torrents : Passed(t)' => Passed(t)
      PROVE  LostInv'
  BY <1>0, <1>1 DEF LostInv
<1>2. ASSUME NEW ok \in BOOLEAN, Load(ok) PROVE LostInv'
  <2>1. taken' = taken /\ deleted' = deleted /\ saved' = saved /\ LoadFeeds(ok)
    BY <1>2 DEF Load
  <2>2. RssTypeOK'
    BY <1>2, LoadTypes DEF Load, TypeOK
  <2>3. ASSUME NEW i \in 1..Len(histories') PROVE \E u \in Urls : histories'[i] = saved.history[u]
    <3>1. feeds' \in Seq(FeedType) /\ Len(histories') = Len(feeds')
      BY <2>2 DEF RssTypeOK, FeedType
    <3>2. feeds'[i] \in FeedType
      BY <2>3, <3>1, ElementOfSeq
    <3> QED
      BY <2>1, <2>3, <3>1, <3>2 DEF LoadFeeds, FeedType
  <2> QED
    BY <1>1, <2>1, <2>3 DEF Passed
<1>3. CASE LoadAll \/ LoadFails
  BY <1>2, <1>3 DEF LoadAll, LoadFails
<1>4. ASSUME UNCHANGED <<deleted, histories, saved>>, taken' = "none" \/ taken' = taken PROVE LostInv'
  BY <1>1, <1>4 DEF Passed
<1>5. CASE StartTick \/ PostUpdates \/ Stop \/ Network \/ UNCHANGED vars
  BY <1>4, <1>5 DEF StartTick, PostUpdates, Stop, Network, RunAdd, vars, autoAddVars, scanVars,
                    rssVars, rssJsVars
<1>6. CASE RunAutoAdd
  <2>0. UNCHANGED <<histories, saved>>
    BY <1>6 DEF RunAutoAdd, rssVars, rssJsVars
  <2>1. CASE \/ NotDue(Len(callbacks)) \/ StartScan \/ OpenFolder \/ EndScan(Len(callbacks))
             \/ \E f \in Files : SkipFile(f) \/ BadFile(f)
    BY <1>4, <2>0, <2>1 DEF NotDue, StartScan, OpenFolder, EndScan, SkipFile, BadFile, Return,
                            Throw, IdleScan
  <2>2. ASSUME NEW f \in Files, TakeFile(f) PROVE LostInv'
    <3>1. f \in Torrents /\ Safe(f)'
      BY <1>0, <2>2 DEF TakeFile, AddTorrents, Safe
    <3>2. taken' \in {"none", f} /\ deleted' = deleted
      BY <2>2 DEF TakeFile
    <3>3. \A t \in Torrents : Passed(t)' => Passed(t)
      BY <2>0, <3>2 DEF Passed
    <3> QED
      BY <1>0, <3>1, <3>2, <3>3 DEF LostInv
  <2>3. CASE DeleteFile
    <3>1. taken # "none" /\ taken' = "none" /\ deleted' \subseteq deleted \cup {taken}
      BY <2>3 DEF DeleteFile
    <3>2. \A t \in Torrents : Passed(t)' => Passed(t) \/ t = taken
      BY <2>0, <3>1 DEF Passed
    <3> QED
      BY <1>0, <3>1, <3>2 DEF LostInv
  <2> QED
    BY <1>6, <2>1, <2>2, <2>3 DEF RunAutoAdd, AutoAddCallback
<1>7. CASE HandleRss /\ UNCHANGED <<autoAddVars, callbacks>>
  <2> DEFINE i   == Find(feeds, Head(rssAlerts).url)
             new == IF feeds[i].dryRun THEN {} ELSE Fresh(feeds[i])
  <2>1. /\ feeds[i].cell \in 1..Len(histories) /\ new \in SUBSET Items
        /\ AddTorrents(new) /\ UNCHANGED saved
        /\ histories' = [histories EXCEPT ![feeds[i].cell] = @ \cup new]
        /\ histories \in Seq(SUBSET Items)
    BY <1>7, Alert DEF TypeOK, RssTypeOK
  <2>2. taken' = taken /\ deleted' = deleted
    BY <1>7 DEF autoAddVars, scanVars
  <2> HIDE DEF i, new
  <2>3. \A t \in new : Safe(t)'
    BY <1>0, <2>1 DEF AddTorrents, Safe
  <2>4. Len(histories') = Len(histories)
        /\ \A j \in 1..Len(histories) : histories'[j] \subseteq histories[j] \cup new
    <3>1. histories[feeds[i].cell] \cup new \in SUBSET Items
      BY <2>1, ElementOfSeq
    <3> QED
      BY <2>1, <3>1, ExceptSeq
  <2>5. \A t \in Torrents : Passed(t)' => Passed(t) \/ t \in new
    BY <2>1, <2>2, <2>4 DEF Passed
  <2> QED
    BY <1>0, <2>2, <2>3, <2>5 DEF LostInv
<1>8. CASE Handle
  <2>1. CASE (\E t \in Torrents : HandleTold(t)) /\ UNCHANGED <<autoAddVars, rssVars, callbacks>>
    BY <1>4, <2>1 DEF autoAddVars, scanVars, rssVars, rssJsVars
  <2>2. CASE DropRss /\ UNCHANGED <<autoAddVars, callbacks>>
    BY <1>4, <2>2 DEF DropRss, autoAddVars, scanVars, rssJsVars
  <2> QED
    BY <1>7, <1>8, <2>1, <2>2 DEF Handle
<1>9. CASE Others
  <2>1. CASE OtherPrograms /\ UNCHANGED <<rssVars, callbacks>>
    BY <1>4, <2>1 DEF OtherPrograms, ChangeFile, ChangeFolder, scanVars, rssVars, rssJsVars
  <2>2. CASE Outside /\ UNCHANGED <<autoAddVars, callbacks>>
    BY <1>4, <2>2 DEF Outside, Configure, Publish, PostRss, autoAddVars, scanVars, rssJsVars
  <2> QED
    BY <1>9, <2>1, <2>2 DEF Others
<1>10. CASE BeginSave
  <2>1. taken' = taken /\ deleted' = deleted /\ histories' = histories
        /\ \A u \in Urls : saved'.history[u] = {}
    BY <1>10 DEF BeginSave, OpenState, NoState, NoHistory, autoAddVars, scanVars, rssJsVars
  <2> QED
    BY <1>1, <2>1 DEF Passed
<1>11. CASE Exit \/ Crash
  <2>1. taken' = "none" /\ deleted' = deleted /\ histories' = <<>>
    BY <1>11 DEF Exit, Crash, EndProcess, IdleScan, ForgetFeeds
  <2>2. \A u \in Urls : saved'.history[u] \subseteq saved.history[u]
                        \/ saved'.history[u] = {}
                        \/ \E i \in 1..Len(histories) : saved'.history[u] = histories[i]
    <3>1. CASE LoseHistories
      BY <3>1 DEF LoseHistories
    <3>2. CASE WriteState
      <4>1. /\ feeds \in Seq(FeedType) /\ Len(histories) = Len(feeds)
            /\ \A i \in 1..Len(feeds) : feeds[i].cell \in 1..i
        BY DEF TypeOK, RssTypeOK, FeedType
      <4>2. \A u \in FeedUrls : feeds[LastWith(u)].cell \in 1..Len(histories)
        BY <4>1, LastFeed
      <4> QED
        BY <3>2, <4>2 DEF WriteState
    <3> QED
      BY <1>11, <3>1, <3>2 DEF Exit, Crash
  <2>3. Len(histories') = 0
    BY <2>1
  <2> QED
    BY <1>1, <2>1, <2>2, <2>3 DEF Passed
<1> QED
  BY <1>3, <1>5, <1>6, <1>8, <1>9, <1>10, <1>11 DEF Next, TickStep

-----------------------------------------------------------------------------
(* Nothing is found twice *)

\* x is in the history that onRss will look it up in: between two processes in the file,
\* then in the array of the first feed with its url.
Remembered(x) ==
  IF phase = "down" THEN x \in saved.history[UrlOf[x]]
  ELSE LET i == Find(feeds, UrlOf[x]) IN i # 0 => x \in histories[feeds[i].cell]

AskedInv == twice = {} /\ \A x \in asked : Remembered(x)

EngineInv == TypeOK /\ LostInv /\ AskedInv

\* The load brings each history to where the first feed with its url looks.
LEMMA LoadAsked ==
  ASSUME TypeOK, NEW ok \in BOOLEAN, Load(ok), NEW x \in Items, x \in saved.history[UrlOf[x]]
  PROVE  Remembered(x)'
<1> DEFINE u == UrlOf[x]
           i == Find(feeds', u)
<1>1. /\ phase' = "run" /\ LoadFeeds(ok) /\ saved' = saved
      /\ UNCHANGED <<outsideVars, rssAlerts, saved, askedVars>>
  BY DEF Load
<1>2. RssTypeOK /\ RssTypeOK'
  BY <1>1, LoadTypes DEF TypeOK
<1>3. feeds' \in Seq(FeedType) /\ Len(histories') = Len(feeds')
  BY <1>2 DEF RssTypeOK, FeedType
<1>4. SUFFICES ASSUME i # 0 PROVE x \in histories'[feeds'[i].cell]
  BY <1>1 DEF Remembered
<1>5. i \in 1..Len(feeds') /\ feeds'[i].url = u
      /\ \A j \in 1..Len(feeds') : feeds'[j].url = u => i <= j
  <2>1. \A list \in Seq(FeedType) : Find(list, u) # 0 =>
          /\ Find(list, u) \in 1..Len(list) /\ list[Find(list, u)].url = u
          /\ \A j \in 1..Len(list) : list[j].url = u => Find(list, u) <= j
    <3> HIDE DEF u
    <3> QED
      BY FindFirst
  <2> QED
    BY <1>3, <1>4, <2>1
<1> HIDE DEF u, i
<1>6. ok /\ saved.kind # "torn" /\ Len(feeds') = Len(configured) /\ Len(configured) \in Nat
      /\ feeds'[i].cell = (IF configured[i].url \in saved.urls
                             THEN Find(configured, configured[i].url) ELSE i)
      /\ \A j \in 1..Len(configured) : feeds'[j].url = configured[j].url
  <2>1. configured \in Seq([url : Urls, wants : SUBSET Items, dryRun : BOOLEAN])
    BY <1>2, FeedsAssumption DEF RssTypeOK
  <2>2. CASE ~(ok /\ saved.kind # "torn")
    <3>1. feeds' = <<>>
      BY <1>1, <2>2 DEF LoadFeeds
    <3> QED
      BY <1>5, <3>1
  <2>3. CASE ok /\ saved.kind # "torn"
    <3> DEFINE feed(k) == [url    |-> configured[k].url, wants |-> configured[k].wants,
                           dryRun |-> configured[k].dryRun,
                           cell   |-> IF configured[k].url \in saved.urls
                                        THEN Find(configured, configured[k].url) ELSE k]
    <3>1. feeds' = [k \in 1..Len(configured) |-> feed(k)] /\ Len(configured) \in Nat
      BY <1>1, <2>1, <2>3 DEF LoadFeeds
    <3>2. Len(feeds') = Len(configured)
      <4> HIDE DEF feed
      <4> QED
        BY <3>1
    <3>3. \A k \in 1..Len(configured) : feeds'[k] = feed(k)
      BY <3>1
    <3> QED
      BY <1>5, <2>3, <3>1, <3>2, <3>3
  <2> QED
    BY <2>2, <2>3
<1>7. feeds'[i].cell \in 1..Len(feeds') /\ feeds'[feeds'[i].cell].url = u
  <2>1. CASE configured[i].url \in saved.urls
    <3>1. configured[i].url = u /\ feeds'[i].cell = Find(configured, u)
      BY <1>5, <1>6, <2>1
    <3>2. configured \in Seq([url : Urls, wants : SUBSET Items, dryRun : BOOLEAN])
      BY <1>2, FeedsAssumption DEF RssTypeOK
    <3>3. Find(configured, u) \in 1..Len(configured) /\ configured[Find(configured, u)].url = u
      <4> DEFINE R == [url : Urls, wants : SUBSET Items, dryRun : BOOLEAN]
      <4>1. configured \in Seq(R) /\ i \in 1..Len(configured) /\ configured[i].url = u
        BY <1>5, <1>6, <3>1, <3>2
      <4> HIDE DEF R
      <4> QED
        BY <4>1, FindFirst
    <3> QED
      BY <1>6, <3>1, <3>3
  <2>2. CASE configured[i].url \notin saved.urls
    BY <1>5, <1>6, <2>2
  <2> QED
    BY <2>1, <2>2
<1>8. histories'[feeds'[i].cell] = saved.history[u]
  <2>1. histories' = [j \in 1..Len(feeds') |-> saved.history[feeds'[j].url]]
    BY <1>1 DEF LoadFeeds
  <2> QED
    BY <1>7, <2>1
<1> QED
  BY <1>8 DEF u

\* What onRss asks for is not in the history, and is there afterwards.
LEMMA HandleAsked ==
  ASSUME TypeOK, AskedInv, HandleRss
  PROVE  AskedInv'
<1> DEFINE u   == Head(rssAlerts).url
           i   == Find(feeds, u)
           new == IF feeds[i].dryRun THEN {} ELSE Fresh(feeds[i])
<1>1. /\ i \in 1..Len(feeds) /\ feeds[i].url = u /\ feeds[i].cell \in 1..Len(histories)
      /\ new \in SUBSET Items /\ \A x \in new : UrlOf[x] = u /\ x \notin histories[feeds[i].cell]
      /\ asked' = asked \cup new /\ twice' = twice \cup (new \cap asked)
      /\ histories' = [histories EXCEPT ![feeds[i].cell] = @ \cup new]
      /\ UNCHANGED <<phase, feeds, saved>> /\ phase = "run"
  BY Alert DEF TypeOK
<1> HIDE DEF u, new
<1>2. i # 0
  BY <1>1
<1>3. twice' = {}
  BY <1>1, <1>2 DEF AskedInv, Remembered
<1>4. /\ feeds \in Seq(FeedType) /\ histories \in Seq(SUBSET Items) /\ Len(histories) = Len(feeds)
      /\ \A j \in 1..Len(feeds) : feeds[j].cell \in 1..j
  BY DEF TypeOK, RssTypeOK, FeedType
<1>5. /\ \A j \in 1..Len(histories) : histories[j] \subseteq histories'[j]
      /\ new \subseteq histories'[feeds[i].cell]
  BY <1>1, <1>4
<1>6. ASSUME NEW x \in asked', Find(feeds, UrlOf[x]) # 0
      PROVE  x \in histories'[feeds[Find(feeds, UrlOf[x])].cell]
  <2>1. CASE x \in new
    BY <1>1, <1>5, <2>1
  <2>2. CASE x \in asked
    <3> DEFINE k == Find(feeds, UrlOf[x])
    <3>1. k \in 1..Len(feeds)
      BY <1>4, <1>6, FindFirst
    <3>2. x \in histories[feeds[k].cell]
      BY <1>1, <1>6, <2>2 DEF AskedInv, Remembered
    <3> HIDE DEF k
    <3>3. feeds[k].cell \in 1..Len(histories)
      BY <1>4, <3>1
    <3>4. x \in histories'[feeds[k].cell]
      BY <1>5, <3>2, <3>3
    <3> QED
      BY <3>4 DEF k
  <2> QED
    BY <1>1, <1>6, <2>1, <2>2
<1> QED
  BY <1>1, <1>3, <1>6 DEF AskedInv, Remembered

\* The last write of a process takes the history of each feed, unless the feed was split;
\* what it does not take, or what a crash loses, is not in asked any more.
LEMMA EndAsked ==
  ASSUME TypeOK, AskedInv, Exit \/ Crash
  PROVE  AskedInv'
<1>0. /\ RssTypeOK /\ asked \subseteq Items
      /\ feeds \in Seq(FeedType) /\ Len(histories) = Len(feeds)
      /\ \A j \in 1..Len(feeds) : feeds[j].cell \in 1..j
  BY DEF TypeOK, RssTypeOK, FeedType
<1>1. phase' = "down" /\ twice' = twice
  BY DEF Exit, Crash, EndProcess, Forget, WriteState, LoseHistories
<1>2. SUFFICES ASSUME NEW x \in asked' PROVE x \in saved'.history[UrlOf[x]]
  BY <1>1 DEF AskedInv, Remembered
<1>3. CASE Crash
  BY <1>2, <1>3 DEF Crash, LoseHistories
<1>4. CASE Exit
  <2> DEFINE u == UrlOf[x]
             i == Find(feeds, u)
             k == LastWith(u)
  <2>1. /\ phase = "write" /\ x \in asked /\ u \in FeedUrls /\ ~Split(u)
        /\ saved'.history = [v \in Urls |-> IF v \in FeedUrls
                                              THEN histories[feeds[LastWith(v)].cell] ELSE {}]
    BY <1>2, <1>4 DEF Exit, WriteState
  <2>2. u \in Urls
    BY <1>0, <2>1, FeedsAssumption
  <2> HIDE DEF u
  <2>3. k \in 1..Len(feeds) /\ feeds[k].url = u
    BY <1>0, <2>1, LastFeed
  <2>4. i \in 1..Len(feeds) /\ feeds[i].url = u
    BY <1>0, <2>3, FindFirst
  <2>5. feeds[i].cell = feeds[k].cell
    BY <2>1, <2>3, <2>4 DEF Split
  <2>6. x \in histories[feeds[i].cell]
    <3>1. i # 0
      BY <2>4
    <3> QED
      BY <2>1, <3>1 DEF AskedInv, Remembered, u
  <2>7. saved'.history[u] = histories[feeds[k].cell]
    BY <2>1, <2>2
  <2> QED
    BY <2>5, <2>6, <2>7 DEF u
<1> QED
  BY <1>3, <1>4

\* Every step keeps the items where onRss will find them.
LEMMA StepAsked == TypeOK /\ AskedInv /\ [Next]_vars => AskedInv'
<1> SUFFICES ASSUME TypeOK, AskedInv, [Next]_vars PROVE AskedInv'
  OBVIOUS
<1>1. ASSUME UNCHANGED <<phase, feeds, histories, saved, asked, twice>> PROVE AskedInv'
  BY <1>1 DEF AskedInv, Remembered
<1>2. ASSUME UNCHANGED <<feeds, histories, asked, twice>>, phase # "down", phase' # "down"
      PROVE  AskedInv'
  BY <1>2 DEF AskedInv, Remembered
<1>3. ASSUME NEW ok \in BOOLEAN, Load(ok) PROVE AskedInv'
  <2>1. phase = "down" /\ asked' = asked /\ twice' = twice /\ asked \subseteq Items
    BY <1>3 DEF Load, askedVars, TypeOK, RssTypeOK
  <2>2. \A x \in asked : x \in Items /\ x \in saved.history[UrlOf[x]]
    BY <2>1 DEF AskedInv, Remembered
  <2>3. \A x \in asked : Remembered(x)'
    BY <1>3, <2>2, LoadAsked
  <2> QED
    BY <2>1, <2>3 DEF AskedInv
<1>4. CASE LoadAll \/ LoadFails
  BY <1>3, <1>4 DEF LoadAll, LoadFails
<1>5. CASE StartTick \/ PostUpdates \/ UNCHANGED vars
  BY <1>1, <1>5 DEF StartTick, PostUpdates, vars, rssVars, rssJsVars, askedVars
<1>6. CASE RunAutoAdd
  <2>1. phase' = phase
    BY <1>6 DEF RunAutoAdd, AutoAddCallback, NotDue, StartScan, OpenFolder, EndScan, SkipFile,
                BadFile, TakeFile, DeleteFile, AddTorrents
  <2> QED
    BY <1>1, <1>6, <2>1 DEF RunAutoAdd, rssVars, rssJsVars, askedVars
<1>7. CASE Handle
  <2>1. CASE (\E t \in Torrents : HandleTold(t)) /\ UNCHANGED <<autoAddVars, rssVars, callbacks>>
    BY <1>1, <2>1 DEF HandleTold, Move, rssVars, rssJsVars, askedVars
  <2>2. CASE DropRss
    BY <1>1, <2>2 DEF DropRss, rssJsVars, askedVars
  <2> QED
    BY <1>7, <2>1, <2>2, HandleAsked DEF Handle
<1>8. CASE Network
  BY <1>1, <1>8 DEF Network, RunAdd, NetAdd, NetRefuse, NetInfo, Move, rssVars, rssJsVars, askedVars
<1>9. CASE Others
  <2>1. CASE OtherPrograms /\ UNCHANGED <<rssVars, callbacks>>
    BY <1>1, <2>1 DEF OtherPrograms, ChangeFile, ChangeFolder, rssVars, rssJsVars, askedVars
  <2>2. CASE Outside
    BY <1>1, <2>2 DEF Outside, Configure, Publish, PostRss, rssJsVars, askedVars
  <2> QED
    BY <1>9, <2>1, <2>2 DEF Others
<1>10. CASE Stop
  BY <1>2, <1>10 DEF Stop, rssVars, rssJsVars, askedVars
<1>11. CASE BeginSave
  BY <1>2, <1>11 DEF BeginSave, OpenState, rssJsVars, askedVars
<1> QED
  BY <1>4, <1>5, <1>6, <1>7, <1>8, <1>9, <1>10, <1>11, EndAsked DEF Next, TickStep

-----------------------------------------------------------------------------
(* The engine *)

LEMMA InitEngine == Init => EngineInv
<1> SUFFICES ASSUME Init PROVE EngineInv
  OBVIOUS
<1>1. TypeOK
  BY InitTypes
<1>2. LostInv
  BY DEF LostInv, Passed, Init, AutoAddInit, RssInit, NoState, NoHistory
<1>3. AskedInv
  BY DEF AskedInv, Init, RssInit
<1> QED
  BY <1>1, <1>2, <1>3 DEF EngineInv

LEMMA StepEngine == EngineInv /\ [Next]_vars => EngineInv'
  BY StepTypes, StepLost, StepAsked DEF EngineInv

\* The inductive invariant of the engine: its types, where the torrents are that the
\* scripts have let go, and where the items are that the feeds have asked for.
THEOREM EngineSafety == Spec => []EngineInv
  BY InitEngine, StepEngine, PTL DEF Spec

\* The state of the session, the folders, autoadd.js' scan and the feeds keeps its
\* types, and the tick its place among the callbacks.
THEOREM EngineTypes == Spec => []TypeOK
<1>1. EngineInv => TypeOK
  BY DEF EngineInv
<1> QED
  BY <1>1, EngineSafety, PTL

\* A torrent file that autoadd.js has deleted, or an item that a history has, is in the
\* session or on the disk, but for two cases: libtorrent refused its last add, or it was on
\* its way when a process ended.
THEOREM NoTorrentLost == Spec => []NothingLost
<1>1. EngineInv => NothingLost
  BY DEF EngineInv, LostInv, Passed, Safe, NothingLost
<1> QED
  BY <1>1, EngineSafety, PTL

\* onRss does not ask the session again for an item of a history that is still there.
THEOREM NoItemTwice == Spec => []NeverTwice
<1>1. EngineInv => NeverTwice
  BY DEF EngineInv, AskedInv, NeverTwice
<1> QED
  BY <1>1, EngineSafety, PTL

-----------------------------------------------------------------------------
(* The way of a torrent *)

\* A script's add is one of those that the way allows: the process is up.
LEMMA GivesWay ==
  ASSUME NEW new \in SUBSET Torrents, AddTorrents(new), phase # "down", UNCHANGED <<phase, at>>
  PROVE  IntakeNext
BY DEF IntakeNext, Give

\* What moves no torrent.
LEMMA RestsWay ==
  ASSUME UNCHANGED <<stage, dropped, refused>>,
         \/ UNCHANGED phase
         \/ phase = "down" /\ phase' = "run"
         \/ phase = "run" /\ phase' = "stop"
         \/ phase = "stop" /\ phase' = "write"
  PROVE  IntakeNext
BY DEF IntakeNext, Lifecycle

\* Every step of the engine is one on the way of a torrent, or none.
LEMMA StepWay == TypeOK /\ [Next]_vars => [IntakeNext]_<<phase, at, stage, dropped, refused>>
<1> SUFFICES ASSUME TypeOK, [Next]_vars
             PROVE  IntakeNext \/ UNCHANGED <<phase, at, stage, dropped, refused>>
  OBVIOUS
<1>1. CASE LoadAll \/ LoadFails \/ StartTick \/ PostUpdates \/ Stop \/ BeginSave
  BY <1>1, RestsWay DEF LoadAll, LoadFails, Load, StartTick, PostUpdates, Stop, BeginSave
<1>2. CASE RunAutoAdd
  <2>1. phase # "down"
    BY <1>2 DEF TypeOK, RunAutoAdd, Running
  <2>2. ASSUME NEW f \in Files, TakeFile(f) PROVE IntakeNext
    <3>1. {f} \in SUBSET Torrents
      BY DEF Torrents
    <3> QED
      BY <2>1, <2>2, <3>1, GivesWay DEF TakeFile
  <2>3. CASE UNCHANGED <<phase, stage, dropped, refused>>
    BY <2>3, RestsWay
  <2> QED
    BY <1>2, <2>2, <2>3 DEF RunAutoAdd, AutoAddCallback, NotDue, StartScan, OpenFolder, EndScan,
                            SkipFile, BadFile, DeleteFile
<1>3. CASE Handle
  <2>1. CASE \E t \in Torrents : HandleTold(t)
    BY <2>1 DEF IntakeNext, IntakeStep
  <2>2. CASE DropRss
    BY <2>2, RestsWay DEF DropRss
  <2>3. CASE HandleRss
    <3>1. PICK new : Ask(new) /\ \E f : new = {} \/ new = Fresh(f)
      BY <2>3 DEF HandleRss
    <3>2. new \in SUBSET Torrents
      BY <3>1 DEF TypeOK, RssTypeOK, Fresh, Torrents
    <3> QED
      BY <2>3, <3>1, <3>2, GivesWay DEF HandleRss, Ask
  <2> QED
    BY <1>3, <2>1, <2>2, <2>3 DEF Handle
<1>4. CASE Network
  BY <1>4 DEF Network, RunAdd, IntakeNext, IntakeStep
<1>5. CASE Others
  BY <1>5, RestsWay DEF Others, OtherPrograms, ChangeFile, ChangeFolder, Outside, Configure,
                        Publish, PostRss
<1>6. CASE Exit \/ Crash
  BY <1>6 DEF Exit, Crash, EndProcess, IntakeNext, Perish
<1>7. CASE UNCHANGED vars
  BY <1>7 DEF vars
<1> QED
  BY <1>1, <1>2, <1>3, <1>4, <1>5, <1>6, <1>7 DEF Next, TickStep

\* The engine, with its ticks, feeds and folders, does to the way of a torrent no more
\* than the store underneath bears out (StoreRefinesIntake).
THEOREM EngineKeepsTheWay == Spec => IntakeSpec
<1>1. Init => IntakeStart
  BY DEF Init, IntakeInit, IntakeStart
<1>2. EngineInv => TypeOK
  BY DEF EngineInv
<1> QED
  BY <1>1, <1>2, StepWay, EngineSafety, PTL DEF Spec, IntakeSpec

-----------------------------------------------------------------------------
(* A tick ends *)

\* What is left of a look through the folders, where a file is looked at and perhaps
\* deleted, and what is left of a tick.
Look == 2 * Cardinality(Files) + 1
Scan ==
  IF next = 0 THEN Len(Folders) * Look + 1
  ELSE (Len(Folders) + 1 - next) * Look
       + 2 * Cardinality(left) + (IF taken = "none" THEN 0 ELSE 1)
TickLeft ==
  IF at = 0 THEN 0 ELSE (Len(callbacks) - at) * (Len(Folders) * Look + 2) + 1 + Scan

\* Between two looks there is nothing to look at and nothing to delete.
AtRest == next = 0 => left = {} /\ taken = "none"

\* Every step keeps it: a look ends, by an exception too, with nothing left of it.
LEMMA StepRest == TypeOK /\ AtRest /\ [Next]_vars => AtRest'
<1> SUFFICES ASSUME TypeOK, AtRest, [Next]_vars PROVE AtRest'
  OBVIOUS
<1>1. CASE RunAutoAdd
  <2>1. ASSUME NEW f \in Files, SkipFile(f) \/ BadFile(f) \/ TakeFile(f) PROVE AtRest'
    BY <2>1 DEF AtRest, SkipFile, BadFile, Throw, IdleScan, TakeFile
  <2>2. CASE \E n : NotDue(n) \/ EndScan(n)
    BY <2>2 DEF AtRest, NotDue, EndScan, Return, IdleScan
  <2>3. CASE StartScan \/ OpenFolder \/ DeleteFile
    <3>1. next \in Nat
      BY FoldersAssumption DEF TypeOK, AutoAddTypeOK
    <3> QED
      BY <2>3, <3>1 DEF AtRest, StartScan, OpenFolder, DeleteFile, Looking
  <2> QED
    BY <1>1, <2>1, <2>2, <2>3 DEF RunAutoAdd, AutoAddCallback
<1>2. CASE UNCHANGED scanVars
  BY <1>2 DEF AtRest, scanVars
<1>3. CASE LoadAll \/ LoadFails
  BY <1>3 DEF AtRest, LoadAll, LoadFails, Load
<1>4. CASE Exit \/ Crash
  BY <1>4 DEF AtRest, Exit, Crash, EndProcess, IdleScan
<1> QED
  BY <1>1, <1>2, <1>3, <1>4
     DEF Next, TickStep, StartTick, PostUpdates, Handle, Network, RunAdd, Others, OtherPrograms,
         ChangeFile, ChangeFolder, Stop, BeginSave, vars, autoAddVars

\* One folder less.
LEMMA OneLess == ASSUME NEW a \in Int, NEW c \in Int PROVE (a - 1) * c = a * c - c
OBVIOUS

\* A product of numbers.
LEMMA TimesNat == ASSUME NEW a \in Nat, NEW c \in Nat PROVE a * c \in Nat
OBVIOUS

\* What there is to count.
LEMMA Counts ==
  AutoAddTypeOK =>
    /\ Look \in Nat /\ Len(Folders) \in Nat /\ Scan \in Nat
    /\ Len(Folders) * Look \in Nat /\ next \in 0..(Len(Folders) + 1)
    /\ (Len(Folders) + 1 - next) * Look \in Nat
    /\ \A S \in SUBSET Files : Cardinality(S) \in Nat /\ 2 * Cardinality(S) < Look
    /\ \A f \in left : Cardinality(left \ {f}) = Cardinality(left) - 1
<1> SUFFICES ASSUME AutoAddTypeOK
             PROVE  /\ Look \in Nat /\ Len(Folders) \in Nat /\ Scan \in Nat
                    /\ Len(Folders) * Look \in Nat /\ next \in 0..(Len(Folders) + 1)
                    /\ (Len(Folders) + 1 - next) * Look \in Nat
                    /\ \A S \in SUBSET Files :
                         Cardinality(S) \in Nat /\ 2 * Cardinality(S) < Look
                    /\ \A f \in left : Cardinality(left \ {f}) = Cardinality(left) - 1
  OBVIOUS
<1> DEFINE k == Cardinality(Files)
<1>1. IsFiniteSet(Files) /\ k \in Nat
  BY TorrentsAssumption, FS_CardinalityType
<1>2. ASSUME NEW S \in SUBSET Files
      PROVE  IsFiniteSet(S) /\ Cardinality(S) \in Nat /\ Cardinality(S) <= k
  BY <1>1, FS_Subset, FS_CardinalityType
<1>3. Look = 2 * k + 1
  BY DEF Look
<1> HIDE DEF k
<1>4. Look \in Nat /\ \A S \in SUBSET Files : 2 * Cardinality(S) < Look
  BY <1>1, <1>2, <1>3
<1>5. \A f \in left : Cardinality(left \ {f}) = Cardinality(left) - 1
  BY <1>2, FS_RemoveElement DEF AutoAddTypeOK
<1>6. Len(Folders) \in Nat /\ next \in 0..(Len(Folders) + 1)
  BY FoldersAssumption DEF AutoAddTypeOK
<1>7. Len(Folders) + 1 - next \in Nat
  BY <1>6
<1>8. Len(Folders) * Look \in Nat /\ (Len(Folders) + 1 - next) * Look \in Nat
  BY <1>4, <1>6, <1>7, TimesNat
<1>9. Scan \in Nat
  <2> DEFINE p == Len(Folders) * Look
             rest == (Len(Folders) + 1 - next) * Look
             c == Cardinality(left)
  <2>1. c \in Nat /\ p \in Nat /\ rest \in Nat
    BY <1>2, <1>8 DEF AutoAddTypeOK
  <2>2. Scan = IF next = 0 THEN p + 1 ELSE rest + 2 * c + (IF taken = "none" THEN 0 ELSE 1)
    BY DEF Scan
  <2> HIDE DEF p, rest, c
  <2> QED
    BY <2>1, <2>2
<1> QED
  BY <1>2, <1>4, <1>5, <1>6, <1>8, <1>9

\* Each step of the look leaves less of it, whatever the other programs have put into
\* the folders since it began.
LEMMA ScanStep ==
  ASSUME AutoAddTypeOK, AutoAddTypeOK', AtRest,
         \/ StartScan \/ OpenFolder \/ DeleteFile
         \/ \E f \in Files : SkipFile(f) \/ TakeFile(f)
  PROVE  Scan' < Scan
<1> DEFINE k == Len(Folders) * Look
           rest == (Len(Folders) + 1 - next) * Look
           c == Cardinality(left)
<1>1. /\ Look \in Nat /\ Len(Folders) \in Nat /\ k \in Nat /\ rest \in Nat /\ c \in Nat
      /\ next \in 0..(Len(Folders) + 1)
      /\ \A S \in SUBSET Files : Cardinality(S) \in Nat /\ 2 * Cardinality(S) < Look
      /\ \A f \in left : Cardinality(left \ {f}) = c - 1
  BY Counts DEF AutoAddTypeOK
<1>2. Scan = IF next = 0 THEN k + 1 ELSE rest + 2 * c + (IF taken = "none" THEN 0 ELSE 1)
  BY DEF Scan
<1>3. next' # 0 =>
        Scan' = (Len(Folders) + 1 - next') * Look
                + 2 * Cardinality(left') + (IF taken' = "none" THEN 0 ELSE 1)
  BY DEF Scan, Look
<1>4. CASE StartScan
  <2>1. next = 0 /\ next' = 1 /\ left' = left /\ taken' = taken
    BY <1>4 DEF StartScan
  <2>2. left = {} /\ taken = "none"
    BY <2>1 DEF AtRest
  <2>3. Len(Folders) + 1 - next' = Len(Folders) /\ Cardinality({}) = 0
    BY <1>1, <2>1, FS_EmptySet
  <2>4. Scan' = k
    BY <1>1, <1>3, <2>1, <2>2, <2>3
  <2> HIDE DEF k
  <2> QED
    BY <1>1, <1>2, <2>1, <2>4
<1>5. CASE OpenFolder
  <2>1. /\ next # 0 /\ next <= Len(Folders) /\ left = {} /\ taken = "none"
        /\ next' = next + 1 /\ taken' = "none"
    BY <1>5 DEF OpenFolder, Looking
  <2>2. 2 * Cardinality(left') < Look /\ Cardinality(left') \in Nat
    BY <1>1 DEF AutoAddTypeOK
  <2>3. (Len(Folders) + 1 - next') * Look = rest - Look
    <3>1. Len(Folders) + 1 - next' = (Len(Folders) + 1 - next) - 1
      BY <1>1, <2>1
    <3> QED
      BY <3>1, <1>1, Len(Folders) + 1 - next \in Int, OneLess
  <2>4. Scan' = rest - Look + 2 * Cardinality(left')
    BY <1>1, <1>3, <2>1, <2>2, <2>3
  <2> HIDE DEF rest, c
  <2> QED
    BY <1>1, <1>2, <2>1, <2>2, <2>4
<1>6. CASE DeleteFile
  <2>1. taken # "none" /\ taken' = "none" /\ next' = next /\ left' = left
    BY <1>6 DEF DeleteFile
  <2>2. next # 0
    BY <2>1 DEF AtRest
  <2>3. Scan' = rest + 2 * c
    BY <1>1, <1>3, <2>1, <2>2
  <2> HIDE DEF rest, c
  <2> QED
    BY <1>1, <1>2, <2>1, <2>2, <2>3
<1>7. CASE \E f \in Files : SkipFile(f) \/ TakeFile(f)
  <2>1. PICK f \in left : left' = left \ {f} /\ taken = "none" /\ next' = next
    BY <1>7 DEF SkipFile, TakeFile
  <2>2. next # 0 /\ Cardinality(left') = c - 1
    BY <1>1, <2>1 DEF AtRest
  <2>3. Scan' = rest + 2 * (c - 1) + (IF taken' = "none" THEN 0 ELSE 1)
    BY <1>1, <1>3, <2>1, <2>2
  <2> HIDE DEF rest, c
  <2> QED
    BY <1>1, <1>2, <2>1, <2>2, <2>3
<1> QED
  BY <1>4, <1>5, <1>6, <1>7

\* Where autoadd.js' callback ends.
Thrown == \E f \in left : Read(f) = "partial"

\* A step of autoadd.js goes on with its look, or leaves it: for the next callback, or by
\* an exception.
LEMMA AutoAddStep ==
  ASSUME TypeOK, AtRest, RunAutoAdd
  PROVE  \/ at' = at /\ Scan' < Scan
         \/ at' = at + 1 /\ next' = 0
         \/ at' = 0 /\ Thrown
<1>1. AutoAddTypeOK /\ AutoAddTypeOK' /\ callbacks = Busy /\ at = 1 /\ Len(callbacks) = 2
  BY StepTypes, Callbacks DEF TypeOK, RunAutoAdd, Next, TickStep
<1>2. CASE StartScan \/ OpenFolder \/ DeleteFile \/ \E f \in Files : SkipFile(f) \/ TakeFile(f)
  <2>1. at' = at
    BY <1>2 DEF StartScan, OpenFolder, DeleteFile, SkipFile, TakeFile
  <2> QED
    BY <1>1, <1>2, <2>1, ScanStep
<1>3. CASE NotDue(Len(callbacks)) \/ EndScan(Len(callbacks))
  BY <1>1, <1>3 DEF NotDue, EndScan, Return, IdleScan
<1>4. CASE \E f \in Files : BadFile(f)
  BY <1>4 DEF BadFile, Throw, Thrown
<1> QED
  BY <1>2, <1>3, <1>4 DEF RunAutoAdd, AutoAddCallback

\* What is left of a tick, by the callback that runs.
LeftByCallback ==
  /\ TickLeft \in Nat /\ Scan \in Nat /\ Len(Folders) * Look \in Nat
  /\ at = 0 => TickLeft = 0
  /\ Running("autoadd") => TickLeft = Len(Folders) * Look + 3 + Scan
  /\ Running("updates") => TickLeft = 1 + Scan
  /\ next = 0 => Scan = Len(Folders) * Look + 1

\* It is as the types have it.
LEMMA LeftOfTick == TypeOK => LeftByCallback
<1> SUFFICES ASSUME TypeOK PROVE LeftByCallback
  OBVIOUS
<1> DEFINE k == Len(Folders) * Look
           b == k + 2
           m == Len(callbacks) - at
<1>1. k \in Nat /\ Scan \in Nat
  BY Counts DEF TypeOK
<1>2. /\ Running("autoadd") => m = 1
      /\ Running("updates") => m = 0
      /\ at = 0 \/ Running("autoadd") \/ Running("updates")
  <2>1. Running("autoadd") => at = 1 /\ Len(callbacks) = 2
    BY Callbacks
  <2>2. Running("updates") => at = Len(callbacks) /\ Len(callbacks) \in Nat
    BY Callbacks
  <2>3. at = 0 \/ Running("autoadd") \/ Running("updates")
    <3>1. CASE callbacks = Idle
      BY <3>1, Callbacks
    <3>2. CASE callbacks = Lone
      <4>1. at \in 0..1
        BY <3>2, Callbacks
      <4>2. at = 0 \/ at = Len(callbacks)
        BY <3>2, <4>1, Callbacks
      <4> QED
        BY <4>2, Callbacks
    <3>3. CASE callbacks = Busy
      <4>1. at \in 0..2
        BY <3>3, Callbacks
      <4>2. at = 0 \/ at = 1 \/ at = Len(callbacks)
        BY <3>3, <4>1, Callbacks
      <4> QED
        BY <3>3, <4>2, Callbacks
    <3> QED
      BY <3>1, <3>2, <3>3, Callbacks
  <2>4. ASSUME Running("autoadd") PROVE m = 1
    <3>1. at = 1 /\ Len(callbacks) = 2
      BY <2>1, <2>4
    <3> QED
      BY <3>1
  <2>5. ASSUME Running("updates") PROVE m = 0
    <3>1. at = Len(callbacks) /\ Len(callbacks) \in Nat
      BY <2>2, <2>5
    <3> QED
      BY <3>1
  <2> HIDE DEF m
  <2> QED
    BY <2>3, <2>4, <2>5
<1>3. TickLeft = IF at = 0 THEN 0 ELSE m * b + 1 + Scan
  BY DEF TickLeft
<1>4. next = 0 => Scan = k + 1
  BY DEF Scan
<1>5. b = k + 2
  OBVIOUS
<1>6. Running("autoadd") \/ Running("updates") => at # 0
  BY DEF Running
<1> HIDE DEF k, b, m
<1>7. 1 * b = b /\ 0 * b = 0
  BY <1>1, <1>5
<1>8. Running("autoadd") => TickLeft = k + 3 + Scan
  <2>1. Running("autoadd") => TickLeft = b + 1 + Scan
    BY <1>2, <1>3, <1>6, <1>7
  <2> QED
    BY <1>1, <1>5, <2>1
<1>9. Running("updates") => TickLeft = 1 + Scan
  <2>1. Running("updates") => TickLeft = 0 + 1 + Scan
    BY <1>2, <1>3, <1>6, <1>7
  <2> QED
    BY <1>1, <2>1
<1>10. TickLeft \in Nat
  BY <1>1, <1>2, <1>3, <1>8, <1>9
<1> QED
  BY <1>1, <1>3, <1>4, <1>8, <1>9, <1>10 DEF LeftByCallback, k

\* A step of the tick that is not its start.
OnWithTick == RunAutoAdd \/ PostUpdates

\* It leaves less of the tick, and ends it after postTorrentUpdates or by an exception.
LEMMA TickOn ==
  ASSUME TypeOK, AtRest, OnWithTick
  PROVE  TickLeft' < TickLeft /\ (at' = 0 => Running("updates") \/ Thrown)
<1>1. TypeOK'
  BY StepTypes DEF OnWithTick, Next, TickStep
<1> DEFINE k == Len(Folders) * Look
<1>2. k \in Nat /\ k' = k /\ Scan \in Nat
  BY LeftOfTick DEF LeftByCallback, Look
<1>3. /\ Running("autoadd") => TickLeft = k + 3 + Scan
      /\ Running("updates") => TickLeft = 1 + Scan
  BY LeftOfTick DEF LeftByCallback
<1>4. /\ Scan' \in Nat
      /\ at' = 0 => TickLeft' = 0
      /\ Running("autoadd")' => TickLeft' = k + 3 + Scan'
      /\ Running("updates")' => TickLeft' = 1 + Scan'
      /\ next' = 0 => Scan' = k + 1
  <2>1. LeftByCallback'
    BY <1>1, LeftOfTick, PTL
  <2> QED
    BY <2>1, <1>2 DEF LeftByCallback
<1> HIDE DEF k
<1>5. CASE RunAutoAdd
  <2>1. callbacks = Busy /\ at = 1 /\ callbacks' = callbacks /\ Running("autoadd")
    BY <1>5, Callbacks DEF RunAutoAdd
  <2>2. CASE at' = at /\ Scan' < Scan
    <3>1. Running("autoadd")' /\ at' = 1
      BY <2>1, <2>2 DEF Running
    <3>2. TickLeft = k + 3 + Scan /\ TickLeft' = k + 3 + Scan'
      BY <1>3, <1>4, <2>1, <3>1
    <3>3. TickLeft' < TickLeft
      <4> DEFINE old == Scan
                 new == Scan'
      <4>1. k \in Nat /\ old \in Nat /\ new \in Nat /\ new < old
        BY <1>2, <1>4, <2>2
      <4>2. TickLeft = k + 3 + old /\ TickLeft' = k + 3 + new
        BY <3>2
      <4> HIDE DEF old, new
      <4> QED
        BY <4>1, <4>2
    <3> QED
      BY <3>1, <3>3
  <2>3. CASE at' = at + 1 /\ next' = 0
    <3>1. Running("updates")' /\ at' # 0
      <4>1. Len(callbacks') = 2 /\ callbacks' = Busy /\ at' = 2
        BY <2>1, <2>3, Callbacks
      <4>2. Busy[2] = "updates"
        BY DEF Busy
      <4> QED
        BY <4>1, <4>2 DEF Running
    <3> QED
      BY <1>2, <1>3, <1>4, <2>1, <2>3, <3>1
  <2>4. CASE at' = 0 /\ Thrown
    BY <1>2, <1>3, <1>4, <2>1, <2>4
  <2> QED
    BY <1>5, <2>2, <2>3, <2>4, AutoAddStep
<1>6. CASE PostUpdates
  <2>1. at' = 0 /\ Running("updates")
    BY <1>6, Callbacks DEF PostUpdates
  <2> QED
    BY <1>2, <1>3, <1>4, <2>1
<1> QED
  BY <1>5, <1>6 DEF OnWithTick

\* No other step goes on with a tick, or leaves one that runs but with its process.
LEMMA TickElse ==
  ASSUME TypeOK, [Next]_vars, ~OnWithTick
  PROVE  \/ StartTick /\ TickLeft = 0
         \/ UNCHANGED <<at, TickLeft>>
         \/ at' = 0 /\ TickLeft' = 0 /\ phase' = "down"
<1>1. CASE StartTick
  BY <1>1, LeftOfTick DEF LeftByCallback, StartTick
<1>2. CASE UNCHANGED <<at, scanVars, callbacks>>
  BY <1>2 DEF TickLeft, Scan, Look, scanVars
<1>3. CASE LoadAll \/ LoadFails
  <2>1. at = 0 /\ at' = 0
    <3>1. phase = "down" /\ at' = at
      BY <1>3 DEF LoadAll, LoadFails, Load
    <3>2. callbacks = Idle
      BY <3>1 DEF TypeOK, Idle
    <3> QED
      BY <3>1, <3>2, Callbacks
  <2> QED
    BY <2>1 DEF TickLeft
<1>4. CASE Exit \/ Crash
  BY <1>4 DEF Exit, Crash, EndProcess, Forget, TickLeft
<1> QED
  BY <1>1, <1>2, <1>3, <1>4
     DEF OnWithTick, Next, TickStep, Handle, HandleTold, NetAdd, NetRefuse, NetInfo, Move, DropRss,
         HandleRss, Network, RunAdd, Others, OtherPrograms, ChangeFile, ChangeFolder, Outside, Configure, Publish,
         PostRss, Stop, BeginSave, vars, autoAddVars

\* The safety half of UpdatesFlow.  A tick ends after as many steps as the folders that are
\* configured and the torrent files that there can be allow, even if other programs go on
\* writing into the folders while it runs; and one that has begun comes to
\* postTorrentUpdates, and with it to the seed goals, unless autoadd.js finds a file that is
\* no torrent or the process ends.
THEOREM TickComesToUpdates ==
  Spec => [][/\ TickLeft' > TickLeft => StartTick /\ TickLeft = 0
             /\ OnWithTick => TickLeft' < TickLeft
             /\ at # 0 /\ at' = 0 => Running("updates") \/ Thrown \/ phase' = "down"]_vars
<1> DEFINE Inv == TypeOK /\ AtRest
<1>1. Init => Inv
  BY InitTypes DEF Init, AutoAddInit, AtRest
<1>2. Inv /\ [Next]_vars => Inv'
  BY StepTypes, StepRest
<1>3. Inv /\ [Next]_vars
        => /\ TickLeft' > TickLeft => StartTick /\ TickLeft = 0
           /\ OnWithTick => TickLeft' < TickLeft
           /\ at # 0 /\ at' = 0 => Running("updates") \/ Thrown \/ phase' = "down"
  <2> SUFFICES ASSUME Inv, [Next]_vars
               PROVE  /\ TickLeft' > TickLeft => StartTick /\ TickLeft = 0
                      /\ OnWithTick => TickLeft' < TickLeft
                      /\ at # 0 /\ at' = 0 => Running("updates") \/ Thrown \/ phase' = "down"
    OBVIOUS
  <2>1. TickLeft \in Nat /\ TickLeft' \in Nat
    <3>1. TypeOK /\ TypeOK'
      BY StepTypes
    <3>2. LeftByCallback /\ LeftByCallback'
      BY <3>1, LeftOfTick, PTL
    <3> QED
      BY <3>2 DEF LeftByCallback
  <2>2. CASE OnWithTick
    BY <2>1, <2>2, TickOn
  <2>3. CASE ~OnWithTick
    BY <2>1, <2>3, TickElse DEF StartTick
  <2> QED
    BY <2>2, <2>3
<1> QED
  BY <1>1, <1>2, <1>3, PTL DEF Spec
=============================================================================
