----------------------------- MODULE DigestProofs -----------------------------
(***************************************************************************)
(* Proofs about the Slack digest, for every set of problems, counts and    *)
(* channels and every lifetime of the snapshot: the state is well formed,  *)
(* the same digest is not posted twice for nothing, and no digest drops a  *)
(* bug that was there, and in every answer of Grail, all along.            *)
(***************************************************************************)
EXTENDS Digest, TLAPS

-----------------------------------------------------------------------------
(* Lists and fingerprints *)

LEMMA BucketTyped == \A n \in Nat : Bucket(n) \in 0..4
BY DEF Bucket

\* A fingerprint is one, and names what the list has.
LEMMA FingerprintTyped ==
  ASSUME NEW list \in Lists
  PROVE  IsHash(Fingerprint(list)) /\ Names(Fingerprint(list)) = Active(list)
<1> DEFINE hash == Fingerprint(list)
<1>1. \A p \in Problems : Bucket(list[p]) \in 0..4
  BY BucketTyped, DigestAssumption DEF Lists
<1>2. hash # None /\ hash = {<<p, Bucket(list[p])>> : p \in Active(list)}
  BY FingerprintAssumption DEF Fingerprint
<1>3. IsHash(hash)
  BY <1>1, <1>2 DEF IsHash, Active
<1> HIDE DEF hash
<1>4. Names(hash) = {entry[1] : entry \in hash}
  BY <1>2 DEF Names
<1>5. Names(hash) = Active(list)
  <2>1. ASSUME NEW p \in Names(hash) PROVE p \in Active(list)
    BY <1>2, <1>4, <2>1
  <2>2. ASSUME NEW p \in Active(list) PROVE p \in Names(hash)
    <3>1. <<p, Bucket(list[p])>> \in hash
      BY <1>2
    <3>2. <<p, Bucket(list[p])>>[1] = p
      OBVIOUS
    <3>3. QED BY <1>4, <3>1, <3>2
  <2>3. QED BY <2>1, <2>2
<1>6. QED BY <1>3, <1>5 DEF hash

\* What an empty fingerprint, of a notifier that has posted nothing, names.
LEMMA NoneIsHash == IsHash(None) /\ Names(None) = {}
BY DEF IsHash, Names

\* A text names problems of its list, or says what it leaves out.
LEMMA TextsNamed ==
  ASSUME NEW list, NEW names \in Texts(list)
  PROVE  names \subseteq Active(list) /\ (NamesAll(list) => names = Active(list))
BY DEF Texts

LEMMA KeptPerfTyped ==
  ASSUME NEW list \in Lists
  PROVE  KeptPerf(list) \in [Perfs -> Counts]
BY DEF KeptPerf, Lists, Problems

LEMMA NoProblemsTyped == NoProblems \in Lists
BY DigestAssumption DEF NoProblems, Lists

-----------------------------------------------------------------------------
(* The state is well formed *)

LEMMA ListTyped ==
  ASSUME TypeOK, NEW list \in Lists, NEW how, ListProblems(list, how)
  PROVE  cache' \in Lists /\ age' \in 0..MaxStale /\ lastPerf' \in [Perfs -> Counts]
<1>1. CASE UNCHANGED client
  BY <1>1 DEF client, TypeOK
<1>2. CASE cache' = list /\ age' = 0 /\ lastPerf' = KeptPerf(list)
  BY <1>2, KeptPerfTyped, DigestAssumption
<1>3. QED BY <1>1, <1>2 DEF ListProblems, Serves

LEMMA IdleTyped ==
  Idle \in [at : {"idle", "listed", "posting"}, list : Lists, url : Webhooks \cup {None}]
BY NoProblemsTyped DEF Idle

LEMMA TypeInit == Init => TypeOK
<1> SUFFICES ASSUME Init PROVE TypeOK
  OBVIOUS
<1>1. cache \in Lists /\ world \in Lists /\ age \in 0..MaxStale
  BY NoProblemsTyped, DigestAssumption DEF Init
<1>2. lastPerf \in [Perfs -> Counts]
  BY DigestAssumption DEF Init
<1>3. IsHash(lastHash) /\ IsHash(told)
  BY NoneIsHash DEF Init
<1>4. QED BY <1>1, <1>2, <1>3, IdleTyped DEF Init, TypeOK

LEMMA TypeStep == TypeOK /\ [Next]_vars => TypeOK'
<1> SUFFICES ASSUME TypeOK, [Next]_vars PROVE TypeOK'
  OBVIOUS
<1> USE DEF client, notifier, history, past
<1>1. ASSUME NEW how, OtherConsumer(how)
      PROVE  TypeOK'
  <2>1. /\ cache' \in Lists /\ age' \in 0..MaxStale /\ lastPerf' \in [Perfs -> Counts]
        /\ omitted' \subseteq Problems /\ omittedNow' \subseteq Problems
    BY <1>1, ListTyped DEF OtherConsumer, Omits, Active, TypeOK
  <2>2. QED BY <1>1, <2>1 DEF OtherConsumer, TypeOK
<1>2. ASSUME NEW how, List(how)
      PROVE  TypeOK'
  <2>1. PICK list \in Lists :
          /\ ListProblems(list, how) /\ poll' = [at |-> "listed", list |-> list, url |-> None]
          /\ omitted' = omitted \cup (named \cap Omits(list, how))
          /\ clearedNow' = Active(list) \ Active(world)
    BY <1>2 DEF List
  <2>2. /\ cache' \in Lists /\ age' \in 0..MaxStale /\ lastPerf' \in [Perfs -> Counts]
        /\ omitted' \subseteq Problems /\ clearedNow' \subseteq Problems
    BY <2>1, ListTyped DEF Active, TypeOK
  <2>3. QED BY <1>2, <2>1, <2>2 DEF List, TypeOK
<1>3. CASE PollFails
  BY <1>3 DEF PollFails, ListFails, TypeOK
<1>4. CASE Sync
  BY <1>4, IdleTyped DEF Sync, Ends, TypeOK
<1>5. ASSUME Delivered
      PROVE  /\ IsHash(told)' /\ named' \subseteq Problems
             /\ cleared' \subseteq Problems /\ omitted' \subseteq Problems
  BY <1>5, FingerprintTyped, TextsNamed DEF Delivered, Active, TypeOK
<1>6. CASE Post
  <2>1. IsHash(lastHash')
    BY <1>6, FingerprintTyped DEF Post, TypeOK
  <2>2. QED BY <1>5, <1>6, <2>1, IdleTyped DEF Post, Ends, TypeOK
<1>7. CASE PostFails
  BY <1>5, <1>7, IdleTyped DEF PostFails, NotDelivered, Ends, TypeOK
<1>8. ASSUME NEW on \in BOOLEAN, NEW url \in Webhooks \cup {None}, SetConfig(on, url)
      PROVE  TypeOK'
  BY <1>8, NoneIsHash DEF SetConfig, TypeOK
<1>9. ASSUME NEW now \in Lists, Change(now)
      PROVE  TypeOK'
  BY <1>9 DEF Change, Active, TypeOK
<1>10. CASE TimePasses
  BY <1>10, DigestAssumption DEF TimePasses, TypeOK
<1>11. CASE UNCHANGED vars
  BY <1>11 DEF vars, TypeOK
<1>12. QED
  BY <1>1, <1>2, <1>3, <1>4, <1>6, <1>7, <1>8, <1>9, <1>10, <1>11 DEF Next

\* The snapshot, the notifier and the tick in progress stay well formed.
THEOREM TypeCorrect == Spec => []TypeOK
BY TypeInit, TypeStep, PTL DEF Spec

-----------------------------------------------------------------------------
(* Nothing is said twice for nothing *)

\* While nothing was changed and no post failed, the notifier remembers what the
\* channel was told, and is about to post only what differs from it.
Remembers ==
  /\ ~rearmed => lastHash = told
  /\ ~rearmed /\ poll.at = "posting" => Fingerprint(poll.list) # lastHash

LEMMA RemembersStep == Remembers /\ [Next]_vars => Remembers'
<1> SUFFICES ASSUME Remembers, [Next]_vars PROVE Remembers'
  OBVIOUS
<1> USE DEF client, notifier, history, past
<1>1. CASE \E how \in Queries : OtherConsumer(how) \/ List(how)
  BY <1>1 DEF OtherConsumer, List, Remembers
<1>2. CASE Sync
  <2>1. CASE poll' = Idle
    <3>1. poll'.at = "idle"
      BY <2>1 DEF Idle
    <3>2. QED BY <1>2, <3>1 DEF Sync, Remembers
  <2>2. CASE poll' # Idle
    <3>1. HasNews /\ poll'.list = poll.list
      <4>1. HasNews /\ poll' = [poll EXCEPT !.at = "posting", !.url = webhook]
        BY <1>2, <2>2 DEF Sync, Ends
      <4>2. QED BY <4>1
    <3>2. QED BY <1>2, <3>1 DEF Sync, HasNews, Remembers
  <2>3. QED BY <2>1, <2>2
<1>3. CASE Post
  BY <1>3 DEF Post, Ends, Delivered, Idle, Remembers
<1>4. CASE PostFails
  BY <1>4 DEF PostFails, Ends, Remembers
<1>5. CASE \E on \in BOOLEAN, url \in Webhooks \cup {None} : SetConfig(on, url)
  BY <1>5 DEF SetConfig, Remembers
<1>6. CASE PollFails \/ (\E now \in Lists : Change(now)) \/ TimePasses \/ UNCHANGED vars
  BY <1>6 DEF PollFails, Change, TimePasses, vars, Remembers
<1>7. QED BY <1>1, <1>2, <1>3, <1>4, <1>5, <1>6 DEF Next

\* The channel is not told the same thing twice, unless somebody changed the
\* configuration or a post failed.
THEOREM NothingTwice == Spec => NoSpam
<1>1. Init => Remembers
  BY DEF Init, Idle, Remembers
<1>2. Remembers /\ Post => (told' = told => rearmed)
  BY DEF Remembers, Post, Delivered
<1>3. Remembers /\ [Next]_vars => [Post /\ told' = told => rearmed]_vars
  BY <1>2
<1>4. QED BY <1>1, <1>3, RemembersStep, PTL DEF Spec, NoSpam

-----------------------------------------------------------------------------
(* No false all-clear *)

\* What the last digest named, or the list of the tick in progress has, and the snapshot
\* or that list lacks, was gone, or lacking in an answer of Grail, at some time since.
Accounted ==
  /\ lastPerf = KeptPerf(cache)
  /\ named \ Active(world) \subseteq cleared
  /\ named \ Active(cache) \subseteq cleared \cup omitted
  /\ poll.at # "idle" =>
       /\ Active(poll.list) \ Active(world) \subseteq clearedNow
       /\ Active(poll.list) \ Active(cache) \subseteq clearedNow \cup omittedNow
       /\ named \ Active(poll.list) \subseteq cleared \cup omitted

\* Counts are numbers: a problem that is not active has occurred no time at all.
LEMMA ActiveOrZero ==
  ASSUME NEW list \in Lists, NEW p \in Problems
  PROVE  list[p] \in Nat /\ (p \in Active(list) <=> list[p] # 0)
<1>1. list[p] \in Nat
  BY DigestAssumption DEF Lists
<1>2. QED BY <1>1 DEF Active

\* A list is as the snapshot then is, and what it lacks of what there is is not in the
\* snapshot before it either, or was lacking in an answer of Grail.
LEMMA ListIsSnapshot ==
  ASSUME TypeOK, Accounted, NEW list \in Lists, NEW how \in Queries, ListProblems(list, how)
  PROVE  /\ cache' = list /\ lastPerf' = KeptPerf(cache')
         /\ Active(world) \cap Active(cache) \subseteq Active(list) \cup Omits(list, how)
<1>1. CASE cache' = list /\ UNCHANGED client /\ list = cache
  BY <1>1 DEF client, Accounted
<1>2. CASE /\ \E errs \in Answers(Errors), perfs \in Answers(Perfs) :
                /\ how = "ok" => Whole(errs) /\ Whole(perfs)
                /\ list = Fresh(errs, perfs, how # "perfFailed")
           /\ how \in Queried /\ cache' = list /\ lastPerf' = KeptPerf(list)
  <2>1. lastPerf = KeptPerf(cache)
    BY DEF Accounted
  <2>2. PICK errs \in Answers(Errors), perfs \in Answers(Perfs) :
          /\ how = "ok" => Whole(errs) /\ Whole(perfs)
          /\ list = Fresh(errs, perfs, how # "perfFailed")
    BY <1>2
  <2>3. ASSUME NEW p \in Active(world), p \in Active(cache), p \notin Active(list)
        PROVE  p \in Omits(list, how)
    <3>1. /\ p \in Problems /\ world[p] # 0 /\ cache[p] # 0 /\ list[p] = 0
      BY <2>3, ActiveOrZero DEF Active, TypeOK
    <3>2. CASE how = "ok"
      <4>1. DOMAIN errs = Errors /\ DOMAIN perfs = Perfs
        BY DEF Answers
      <4>2. list[p] = world[p]
        BY <2>2, <3>1, <3>2, <4>1 DEF Whole, Fresh, Problems
      <4>3. QED BY <3>1, <4>2
    <3>3. CASE how = "perfFailed" /\ p \notin Errors
      <4>1. p \in Perfs /\ list[p] = lastPerf[p]
        BY <2>2, <3>1, <3>3 DEF Fresh, Problems
      <4>2. QED BY <2>1, <3>1, <4>1 DEF KeptPerf
    <3>4. QED BY <1>2, <2>3, <3>1, <3>2, <3>3 DEF Omits, Queried
  <2>4. QED BY <1>2, <2>3
<1>3. UNCHANGED client => UNCHANGED cache
  BY DEF client
<1>4. QED BY <1>1, <1>2, <1>3 DEF ListProblems, Serves

LEMMA AccountedStep == TypeOK /\ Accounted /\ [Next]_vars => Accounted'
<1> SUFFICES ASSUME TypeOK, Accounted, [Next]_vars PROVE Accounted'
  OBVIOUS
<1> USE DEF client, notifier, history, past
<1>1. ASSUME NEW how \in Queries, OtherConsumer(how)
      PROVE  Accounted'
  <2>1. PICK list \in Lists :
          /\ ListProblems(list, how)
          /\ omitted' = omitted \cup (named \cap Omits(list, how))
          /\ omittedNow' = omittedNow \cup (Active(poll.list) \cap Omits(list, how))
    BY <1>1 DEF OtherConsumer
  <2>2. /\ cache' = list /\ lastPerf' = KeptPerf(cache')
        /\ Active(world) \cap Active(cache) \subseteq Active(list) \cup Omits(list, how)
    BY <2>1, ListIsSnapshot
  <2>3. UNCHANGED <<world, poll, named, cleared, clearedNow>>
    BY <1>1 DEF OtherConsumer
  <2>4. QED BY <2>1, <2>2, <2>3 DEF Accounted
<1>2. ASSUME NEW how \in Queries, List(how)
      PROVE  Accounted'
  <2>1. PICK list \in Lists :
          /\ ListProblems(list, how) /\ poll' = [at |-> "listed", list |-> list, url |-> None]
          /\ omitted' = omitted \cup (named \cap Omits(list, how))
          /\ clearedNow' = Active(list) \ Active(world)
    BY <1>2 DEF List
  <2>2. /\ cache' = list /\ lastPerf' = KeptPerf(cache')
        /\ Active(world) \cap Active(cache) \subseteq Active(list) \cup Omits(list, how)
    BY <2>1, ListIsSnapshot
  <2>3. poll'.list = list /\ UNCHANGED <<world, named, cleared>>
    BY <1>2, <2>1 DEF List
  <2>4. QED BY <2>1, <2>2, <2>3 DEF Accounted
<1>3. CASE Sync
  <2>1. /\ UNCHANGED <<world, cache, lastPerf, named, cleared, omitted>>
        /\ \/ poll' = Idle
           \/ poll'.list = poll.list /\ UNCHANGED <<clearedNow, omittedNow>>
        /\ poll.at # "idle"
    <3>1. \/ poll' = Idle
          \/ /\ poll' = [poll EXCEPT !.at = "posting", !.url = webhook]
             /\ UNCHANGED <<clearedNow, omittedNow>>
      BY <1>3 DEF Sync, Ends
    <3>2. \/ poll' = Idle
          \/ poll'.list = poll.list /\ UNCHANGED <<clearedNow, omittedNow>>
      BY <3>1 DEF TypeOK
    <3>3. QED BY <1>3, <3>2 DEF Sync
  <2>2. Idle.at = "idle"
    BY DEF Idle
  <2>3. QED BY <2>1, <2>2 DEF Accounted
<1>4. CASE Post \/ (PostFails /\ Delivered)
  <2>1. /\ poll.at = "posting" /\ poll'.at = "idle"
        /\ named' \in Texts(poll.list) /\ cleared' = clearedNow /\ omitted' = omittedNow
        /\ UNCHANGED <<world, cache, lastPerf>>
    BY <1>4 DEF Post, PostFails, Delivered, Ends, Idle
  <2>2. named' \subseteq Active(poll.list)
    BY <2>1, TextsNamed
  <2>3. QED BY <2>1, <2>2 DEF Accounted
<1>5. CASE PostFails /\ ~Delivered
  <2>1. poll'.at = "idle" /\ UNCHANGED <<world, cache, lastPerf, named, cleared, omitted>>
    BY <1>5 DEF PostFails, NotDelivered, Ends, Idle
  <2>2. QED BY <2>1 DEF Accounted
<1>6. ASSUME NEW now \in Lists, Change(now)
      PROVE  Accounted'
  <2>1. /\ world' = now /\ cleared' = cleared \cup (named \ Active(now))
        /\ clearedNow' = clearedNow \cup (Active(poll.list) \ Active(now))
        /\ UNCHANGED <<cache, lastPerf, poll, named, omitted, omittedNow>>
    BY <1>6 DEF Change
  <2>2. QED BY <2>1 DEF Accounted
<1>7. CASE PollFails \/ TimePasses \/ UNCHANGED vars
           \/ \E on \in BOOLEAN, url \in Webhooks \cup {None} : SetConfig(on, url)
  <2>1. UNCHANGED <<world, cache, lastPerf, poll, named, past>>
    BY <1>7 DEF PollFails, ListFails, TimePasses, SetConfig, vars
  <2>2. QED BY <2>1 DEF Accounted
<1>8. QED BY <1>1, <1>2, <1>3, <1>4, <1>5, <1>6, <1>7 DEF Next

\* A digest that says what it names is all drops only bugs that were gone at some time
\* since the one before it, or that an answer of Grail lacked, whatever queries failed
\* and whatever snapshots were served meanwhile.
THEOREM NoBugHidden == Spec => NoFalseAllClear
<1>1. Init => Accounted
  BY DEF Init, Idle, KeptPerf, NoProblems, Problems, Accounted
<1>2. ASSUME Accounted, Post, NamesAll(poll.list)
      PROVE  named \ named' \subseteq cleared \cup omitted
  <2>1. poll.at = "posting" /\ named' = Active(poll.list)
    BY <1>2, TextsNamed DEF Post, Delivered
  <2>2. QED BY <1>2, <2>1 DEF Accounted
<1>3. Accounted /\ [Next]_vars
      => [Post /\ NamesAll(poll.list) => named \ named' \subseteq cleared \cup omitted]_vars
  BY <1>2
<1>4. QED BY <1>1, <1>3, TypeInit, TypeStep, AccountedStep, PTL DEF Spec, NoFalseAllClear

-----------------------------------------------------------------------------
(* When a new channel is told *)

\* The channel is not changed while a post to it is under way.
ChannelKept == poll.at = "posting" => webhook' = webhook

ToTheChannel == poll.at = "posting" => poll.url = webhook

LEMMA ToTheChannelStep ==
  TypeOK /\ ToTheChannel /\ [Next]_vars /\ [ChannelKept]_vars => ToTheChannel'
<1> SUFFICES ASSUME TypeOK, ToTheChannel, [Next]_vars, [ChannelKept]_vars
             PROVE  ToTheChannel'
  OBVIOUS
<1>P. TypeOK OBVIOUS
<1>1. CASE UNCHANGED <<poll, webhook>>
  BY <1>1 DEF ToTheChannel
<1>2. CASE ChannelKept /\ UNCHANGED poll
  BY <1>2 DEF ToTheChannel, ChannelKept
<1>3. CASE \E how \in Queries : OtherConsumer(how) \/ List(how)
  BY <1>3 DEF OtherConsumer, List, ToTheChannel, notifier
<1>4. CASE Sync
  <2>1. UNCHANGED webhook BY <1>4 DEF Sync, notifier
  <2>2. CASE poll' = Idle
    BY <2>2 DEF Idle, ToTheChannel
  <2>3. CASE poll' = [poll EXCEPT !.at = "posting", !.url = webhook]
    <3>1. poll'.at = "posting" => poll'.url = webhook
      BY <1>P, <2>3 DEF TypeOK
    <3>2. QED BY <2>1, <3>1 DEF ToTheChannel
  <2>4. QED BY <1>4, <2>2, <2>3 DEF Sync, Ends
<1>5. CASE Post \/ PostFails
  BY <1>5 DEF Post, PostFails, Ends, Idle, ToTheChannel
<1>6. CASE \E on \in BOOLEAN, url \in Webhooks \cup {None} : SetConfig(on, url)
  BY <1>1, <1>2, <1>6 DEF SetConfig, vars, notifier
<1>7. QED
  BY <1>1, <1>2, <1>3, <1>4, <1>5, <1>6
     DEF Next, PollFails, Change, TimePasses, vars, notifier

\* "A config change re-arms the digest so the next poll re-posts", unless it comes while a
\* post to the channel it replaces is under way: no other post makes a new channel count
\* as told.
THEOREM RearmedReposts == Spec /\ [][ChannelKept]_vars => RearmedRepost
<1>1. Init => ToTheChannel
  BY DEF Init, Idle, ToTheChannel
<1>2. ToTheChannel => [Post => poll.url = webhook \/ lastHash' = None]_vars
  BY DEF ToTheChannel, Post
<1>3. QED BY <1>1, <1>2, TypeInit, TypeStep, ToTheChannelStep, PTL DEF Spec, RearmedRepost
=============================================================================
