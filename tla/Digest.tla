-------------------------------- MODULE Digest --------------------------------
(***************************************************************************)
(* How a problem comes to the team's channel: the Dynatrace client's       *)
(* ListProblems with its snapshot cache (internal/dynatrace/client.go),    *)
(* the Slack notifier's poller on top of it (internal/slack), the other    *)
(* consumers of the list, and POST /api/slack/config.                      *)
(*                                                                         *)
(* Grail and the webhook are external: a query may fail or be answered     *)
(* short of what there is, a post may fail, and a post that is reported as *)
(* failed may have been delivered.  Time is the age of the snapshot, in    *)
(* units that cacheTTL and maxStale are given in.                          *)
(***************************************************************************)
EXTENDS Naturals, FiniteSets

CONSTANTS
  Errors,      \* error:<service> problems
  Perfs,       \* performance:<service> problems
  Counts,      \* how often one may have occurred; 0: not at all
  Webhooks,    \* channels
  CacheTTL, MaxStale,
  MaxNamed,    \* how many problems the text of a digest names
  None         \* no webhook, no fingerprint

Problems == Errors \cup Perfs
Lists    == [Problems -> Counts]
NoProblems == [p \in Problems |-> 0]

ASSUME DigestAssumption ==
  /\ Errors \cap Perfs = {} /\ 0 \in Counts /\ Counts \subseteq Nat
  /\ CacheTTL \in Nat \ {0} /\ MaxStale \in Nat /\ CacheTTL <= MaxStale
  /\ MaxNamed \in Nat /\ IsFiniteSet(Problems)
  /\ None \notin Webhooks

VARIABLES
  world,       \* what Grail would answer
  cache,       \* Client.cache; NoProblems is the nil slice that an empty answer is
  age,         \* the time since cachedAt, up to MaxStale
  lastPerf,    \* Client.lastPerf
  enabled, webhook, lastHash,  \* the notifier
  poll,        \* the tick in progress: its place, list and url
  told,        \* history: the fingerprint of the last digest delivered ...
  named,       \* ... and the problems its text named
  cleared,     \* history: which of these were gone at some time since ...
  omitted,     \* ... or there, but lacking in an answer of Grail
  clearedNow,  \* the same of the problems on the list of the tick in progress
  omittedNow,
  rearmed,     \* history: the configuration changed, or a post failed, since
  unsure       \* history: a post reported as failed was delivered since

client   == <<cache, age, lastPerf>>
notifier == <<enabled, webhook, lastHash>>
past     == <<cleared, omitted, clearedNow, omittedNow>>
history  == <<told, named, past, rearmed, unsure>>
vars     == <<world, client, notifier, poll, history>>

Active(list) == {p \in Problems : list[p] > 0}

\* bucket
Bucket(n) == IF n = 0 THEN 0 ELSE IF n < 10 THEN 1 ELSE IF n < 100 THEN 2
             ELSE IF n < 1000 THEN 3 ELSE 4

Fingerprint(list) == {<<p, Bucket(list[p])>> : p \in Active(list)}

\* It is a digest, never the empty string of a notifier that has posted nothing.
ASSUME FingerprintAssumption == \A list \in Lists : Fingerprint(list) # None

IsHash(hash) == hash = None \/ hash \subseteq Problems \X (0..4)
Names(hash) == IF hash = None THEN {} ELSE {entry[1] : entry \in hash}

-----------------------------------------------------------------------------
(* ListProblems *)

\* What a query answers: at most as much as there is, for its rows are limited, and
\* executeDQLMeta takes an error that the tool reports in its answer for no rows.
Answers(half) == {rows \in [half -> Counts] : \A p \in half : rows[p] <= world[p]}

Whole(rows) == \A p \in DOMAIN rows : rows[p] = world[p]

\* Slip: a failed performance query empties that half of the list.
Fresh_DropsPerf(errs, perfs, perfOk) ==
  [p \in Problems |-> IF p \in Errors THEN errs[p] ELSE IF perfOk THEN perfs[p] ELSE 0]

\* listProblemsFresh: when the second query fails, the last slow operations are kept.
Fresh(errs, perfs, perfOk) ==
  [p \in Problems |-> IF p \in Errors THEN errs[p] ELSE IF perfOk THEN perfs[p] ELSE lastPerf[p]]

\* Slip: everything listed counts as slow the next time.
KeptPerf_All(list) == list

KeptPerf(list) == [p \in Perfs |-> list[p]]

Serves(list) == cache # NoProblems /\ list = cache /\ UNCHANGED client

Young == cache # NoProblems /\ age < CacheTTL

Queried == {"ok", "short", "perfFailed"}
Queries == Queried \cup {"none", "failed"}

\* The snapshot while it is young; else a fresh list, or, if that fails, the snapshot
\* while it is not too old.  how: what came of the queries.
ListProblems(list, how) ==
  \/ how = "none" /\ Young /\ Serves(list)
  \/ /\ how \in Queried /\ ~Young
     /\ \E errs \in Answers(Errors), perfs \in Answers(Perfs) :
          /\ how = "ok" => Whole(errs) /\ Whole(perfs)
          /\ list = Fresh(errs, perfs, how # "perfFailed")
     /\ cache' = list /\ age' = 0 /\ lastPerf' = KeptPerf(list)
  \/ how = "failed" /\ ~Young /\ age < MaxStale /\ Serves(list)

\* What an answer lacked.
Omits(list, how) ==
  {p \in Active(world) : /\ list[p] = 0 /\ how \in {"short", "perfFailed"}
                         /\ p \in Errors \/ how = "short"}

\* There is neither a fresh list nor a snapshot to serve.
ListFails == ~(cache # NoProblems /\ age < MaxStale) /\ UNCHANGED client

\* The problem list of the UI, the engine's poll.
OtherConsumer(how) ==
  /\ \E list \in Lists :
       /\ ListProblems(list, how)
       /\ omitted' = omitted \cup (named \cap Omits(list, how))
       /\ omittedNow' = omittedNow \cup (Active(poll.list) \cap Omits(list, how))
  /\ UNCHANGED <<world, notifier, poll, told, named, cleared, clearedNow, rearmed, unsure>>

-----------------------------------------------------------------------------
(* The poller: tick, Sync, post *)

Idle == [at |-> "idle", list |-> NoProblems, url |-> None]

Ends == poll' = Idle /\ clearedNow' = {} /\ omittedNow' = {}

List(how) ==
  /\ poll.at = "idle"
  /\ \E list \in Lists :
       /\ ListProblems(list, how)
       /\ poll' = [at |-> "listed", list |-> list, url |-> None]
       /\ omitted' = omitted \cup (named \cap Omits(list, how))
       /\ clearedNow' = Active(list) \ Active(world)
  /\ UNCHANGED <<world, notifier, told, named, cleared, omittedNow, rearmed, unsure>>

PollFails ==
  /\ poll.at = "idle" /\ ListFails
  /\ UNCHANGED <<world, notifier, poll, history>>

\* Slip: a digest is posted at every poll.
HasNews_Always == TRUE

HasNews == Fingerprint(poll.list) # lastHash

\* Sync reads the configuration and lets go of it.
Sync ==
  /\ poll.at = "listed"
  /\ IF enabled /\ webhook # None /\ HasNews
     THEN /\ poll' = [poll EXCEPT !.at = "posting", !.url = webhook]
          /\ UNCHANGED <<clearedNow, omittedNow>>
     ELSE Ends
  /\ UNCHANGED <<world, client, notifier, told, named, cleared, omitted, rearmed, unsure>>

\* digestText names the first few of the list, and says how many more there are.
NamesAll(list) == Cardinality(Active(list)) <= MaxNamed
Texts(list) ==
  IF NamesAll(list) THEN {Active(list)}
  ELSE {names \in SUBSET Active(list) : Cardinality(names) = MaxNamed}

Delivered ==
  /\ told' = Fingerprint(poll.list) /\ named' \in Texts(poll.list)
  /\ cleared' = clearedNow /\ omitted' = omittedNow

NotDelivered == UNCHANGED <<told, named, cleared, omitted>>

Post ==
  /\ poll.at = "posting" /\ Delivered
  /\ lastHash' = Fingerprint(poll.list)
  /\ Ends
  /\ rearmed' = FALSE /\ unsure' = FALSE
  /\ UNCHANGED <<world, client, enabled, webhook>>

\* Slip: what is about to be posted is remembered before it is known to have arrived.
PostFails_Remembers ==
  /\ poll.at = "posting"
  /\ Ends /\ rearmed' = TRUE
  /\ lastHash' = Fingerprint(poll.list)
  /\ \/ Delivered /\ unsure' = TRUE
     \/ NotDelivered /\ UNCHANGED unsure
  /\ UNCHANGED <<world, client, enabled, webhook>>

\* A failed post is not remembered, so the next tick tries again.
PostFails ==
  /\ poll.at = "posting"
  /\ Ends /\ rearmed' = TRUE
  /\ \/ Delivered /\ unsure' = TRUE
     \/ NotDelivered /\ UNCHANGED unsure
  /\ UNCHANGED <<world, client, notifier>>

\* An empty url leaves the webhook as it is.
SetConfig(on, url) ==
  /\ enabled' = on
  /\ webhook' = IF url = None THEN webhook ELSE url
  /\ lastHash' = None /\ rearmed' = TRUE
  /\ UNCHANGED <<world, client, poll, told, named, past, unsure>>

-----------------------------------------------------------------------------
(* External: the monitored service, and time *)

Change(now) ==
  /\ world' = now
  /\ cleared' = cleared \cup (named \ Active(now))
  /\ clearedNow' = clearedNow \cup (Active(poll.list) \ Active(now))
  /\ UNCHANGED <<client, notifier, poll, told, named, omitted, omittedNow, rearmed, unsure>>

TimePasses ==
  /\ age < MaxStale /\ age' = age + 1
  /\ UNCHANGED <<world, cache, lastPerf, notifier, poll, history>>

Init ==
  /\ world \in Lists /\ cache = NoProblems /\ age = MaxStale
  /\ lastPerf = [p \in Perfs |-> 0]
  /\ webhook \in Webhooks \cup {None} /\ enabled = (webhook # None) /\ lastHash = None
  /\ poll = Idle
  /\ told = None /\ named = {}
  /\ cleared = {} /\ omitted = {} /\ clearedNow = {} /\ omittedNow = {}
  /\ rearmed = FALSE /\ unsure = FALSE

Next ==
  \/ \E how \in Queries : OtherConsumer(how) \/ List(how)
  \/ PollFails \/ Sync \/ Post \/ PostFails
  \/ \E on \in BOOLEAN, url \in Webhooks \cup {None} : SetConfig(on, url)
  \/ \E now \in Lists : Change(now)
  \/ TimePasses

Spec == Init /\ [][Next]_vars

\* The ticker ticks, a tick ends (45 s, 10 s timeouts), and time passes.
Fairness ==
  /\ WF_vars(\E how \in {"none", "ok"} : List(how))
  /\ WF_vars(Sync) /\ WF_vars(Post) /\ WF_vars(TimePasses)

-----------------------------------------------------------------------------
(* Properties *)

TypeOK ==
  /\ world \in Lists /\ cache \in Lists /\ age \in 0..MaxStale
  /\ lastPerf \in [Perfs -> Counts]
  /\ enabled \in BOOLEAN /\ webhook \in Webhooks \cup {None} /\ IsHash(lastHash)
  /\ poll \in [at : {"idle", "listed", "posting"}, list : Lists, url : Webhooks \cup {None}]
  /\ IsHash(told) /\ named \subseteq Problems
  /\ cleared \subseteq Problems /\ clearedNow \subseteq Problems
  /\ omitted \subseteq Problems /\ omittedNow \subseteq Problems
  /\ rearmed \in BOOLEAN /\ unsure \in BOOLEAN

\* The channel hears the same thing twice only after the configuration was changed or
\* a post failed: recurring occurrences do not spam it.
NoSpam == [][Post /\ told' = told => rearmed]_vars

\* A digest that says what it names is all, and does not name a bug the one before it
\* named, is right about that, or is misled by Grail: the bug was gone at some time since,
\* or an answer of Grail lacked it.  No query that failed openly, no snapshot served in
\* its place and no other consumer of the list makes a bug look fixed.
NoFalseAllClear ==
  [][Post /\ NamesAll(poll.list) => named \ named' \subseteq cleared \cup omitted]_vars

\* Once the bugs and the configuration stay as they are, and queries are answered whole
\* and posts come through, the last digest delivered is about them, unless a post that
\* was reported as failed had been delivered after all.
DigestFollows ==
  []<>(told = Fingerprint(world) \/ ~enabled \/ webhook = None \/ unsure)

\* "A transient query failure serves the last good snapshot instead of blanking": a bug
\* that was there all along does not look fixed.
NotBlanked ==
  [][Post /\ NamesAll(poll.list) => named \ named' \subseteq cleared]_vars

\* "A config change re-arms the digest so the next poll re-posts": no post that was
\* under way when the channel was changed makes it count as told.
RearmedRepost ==
  [][Post => poll.url = webhook \/ lastHash' = None]_vars
=============================================================================
