---------------------------- MODULE PushChannel ----------------------------
(***************************************************************************)
(* How an urgent message leaves the process: the burst suppressor, the     *)
(* dispatcher that posts to all channels of a plan at once, each with its  *)
(* retries, the push_log rows, and the job that tells the operator about   *)
(* channels that keep failing.                                             *)
(*                                                                         *)
(* process_pending handles one message at a time; the posts of a plan run  *)
(* concurrently; the alert job runs between their awaits.  A webhook may   *)
(* refuse, be unreachable, or take the message and not answer in time.     *)
(* Suppressor and throttle live in memory, push_log does not.              *)
(***************************************************************************)
EXTENDS Integers, Sequences, FiniteSets, SequencesExt

CONSTANTS
  Tickers,
  ChannelDefs,   \* channels.yml: id -> [enabled, hook], hook a dotted path
                 \* <<subsystem, key>>
  SecretsFiles,  \* contents of push in secrets.yml: [nested, flat]
  AlertKey,      \* AlertKey[k]: the key k with _alert appended
  Messages,      \* urgent messages: [tickers, plans], plans a sequence of
                 \* sets of channels
  Window, Threshold,            \* of the BurstSuppressor
  MaxAttempts,                  \* max_retries of the pushers
  FailThreshold, FailWindow,    \* of alert_on_push_failures
  Period,                       \* its interval
  Throttle,                     \* of the BarkAlerter
  MaxClock, MaxMessages,        \* bounds on time and on messages
  MaxDisturbances               \* bound on missed runs and crashes together

Channels == {c \in DOMAIN ChannelDefs : ChannelDefs[c].enabled}

ASSUME PushConstantsOK ==
  /\ Window \in Nat /\ Threshold \in Nat \ {0} /\ MaxAttempts \in Nat \ {0}
  /\ FailThreshold \in Nat \ {0} /\ FailWindow \in Nat
  /\ Period \in Nat /\ Throttle \in Nat /\ Throttle < Period
  /\ MaxClock \in Nat /\ MaxMessages \in Nat
  /\ MaxDisturbances \in Nat
  /\ \A m \in Messages : m.tickers \in Seq(Tickers)

\* A message without a plan is not sent at all.
ASSUME PlansOK ==
  \A m \in Messages : m.plans \in Seq(SUBSET DOMAIN ChannelDefs) /\ m.plans # <<>>

VARIABLES
  clock,
  \* ---- the process
  secrets,       \* the push part of secrets.yml the pushers were built with
  bucket,        \* BurstSuppressor._buckets
  lastSent,      \* BarkAlerter._last_sent of push_fail_<channel>, or Never
  due,           \* the next run of push_failure_alert
  job,           \* process_pending: [pc, tickers, plans]
  post,          \* the pushers: [pc, tries, copies, late, ok]
  \* ---- the database
  failedAt,      \* the sent_at of the failed rows of push_log, by channel
  \* ---- history
  released,      \* released[t]: [at, n, life], a plan sent at that time in that
                 \* life of the process (of crashes + 1) naming t n times
  bootedAt, messages, misses, crashes

memory  == <<secrets, bucket, lastSent, due>>
history == <<released, bootedAt, messages, misses, crashes>>
vars    == <<clock, memory, job, post, failedAt, history>>

Never == -1
Idle == [pc |-> "idle", tickers |-> <<>>, plans |-> <<>>]
Begun(pc) == [pc |-> pc, tries |-> 0, copies |-> 0, late |-> 0, ok |-> FALSE]
Quiet == Begun("none")

-----------------------------------------------------------------------------
(* _lookup_push: nested secrets first, then the old flat layout, where the *)
(* keys of quote_watcher end in _alert.                                    *)

NoHook == "none"

FlatBare(s, subsystem, key) == IF key \in DOMAIN s.flat THEN s.flat[key] ELSE NoHook
Flat(s, subsystem, key) ==
  IF subsystem = "quote_watcher" /\ AlertKey[key] \in DOMAIN s.flat
  THEN s.flat[AlertKey[key]]
  ELSE IF key \in DOMAIN s.flat THEN s.flat[key] ELSE NoHook

Lookup(s, path) ==
  IF path \in DOMAIN s.nested THEN s.nested[path] ELSE Flat(s, path[1], path[2])

\* build_pushers: the webhook of each pusher.
HookOf(c) == ChannelDefs[c].hook
hooks == [c \in Channels |-> Lookup(secrets, HookOf(c))]

Init ==
  /\ clock = 0
  /\ secrets \in SecretsFiles
  /\ bucket = [t \in Tickers |-> <<>>]
  /\ lastSent = [c \in Channels |-> Never]
  /\ due = Period
  /\ job = Idle /\ post = [c \in Channels |-> Quiet]
  /\ failedAt = [c \in Channels |-> <<>>]
  /\ released = [t \in Tickers |-> <<>>]
  /\ bootedAt = 0 /\ messages = 0 /\ misses = 0 /\ crashes = 0

Tick ==
  /\ clock < MaxClock /\ clock < due
  /\ clock' = clock + 1
  /\ UNCHANGED <<memory, job, post, failedAt, history>>

Disturbable == misses + crashes < MaxDisturbances

\* The process dies and is started again at once.
Crash ==
  /\ Disturbable
  /\ crashes' = crashes + 1
  /\ bucket' = [t \in Tickers |-> <<>>]
  /\ lastSent' = [c \in Channels |-> Never]
  /\ due' = clock + Period
  /\ job' = Idle /\ post' = [c \in Channels |-> Quiet]
  /\ bootedAt' = clock
  /\ UNCHANGED <<clock, secrets, failedAt, released, messages, misses>>

-----------------------------------------------------------------------------
(* BurstSuppressor.should_send *)

Take(m) ==
  /\ job.pc = "idle" /\ messages < MaxMessages
  /\ messages' = messages + 1
  /\ job' = [pc |-> "plan", tickers |-> m.tickers, plans |-> m.plans]
  /\ UNCHANGED <<clock, memory, post, failedAt, released, bootedAt, misses, crashes>>

Named == ToSet(job.tickers)
Times(t) == Cardinality({i \in DOMAIN job.tickers : job.tickers[i] = t})

\* The first entry of a bucket that is not old; those before it are dropped.
FirstFreshOpen(times) ==
  CHOOSE k \in 1..Len(times) + 1 :
    /\ \A i \in 1..k - 1 : times[i] <= clock - Window
    /\ k \in DOMAIN times => times[k] > clock - Window
FirstFresh(times) ==
  CHOOSE k \in 1..Len(times) + 1 :
    /\ \A i \in 1..k - 1 : times[i] < clock - Window
    /\ k \in DOMAIN times => times[k] >= clock - Window
Fresh(times) == SubSeq(times, FirstFresh(times), Len(times))

Expired == [t \in Tickers |-> IF t \in Named THEN Fresh(bucket[t]) ELSE bucket[t]]
Full(t) == Len(Expired[t]) >= Threshold

Appended(times, n) == times \o [i \in 1..n |-> clock]

\* What the buckets are after a refusal: nothing is added.
AfterRefusalExtended == [t \in Tickers |-> Appended(Expired[t], Times(t))]
AfterRefusal == Expired

\* The coroutine of a message whose plans are through is idle.
PlansLeft(pc, plans) ==
  IF plans = <<>> THEN Idle ELSE [pc |-> pc, tickers |-> job.tickers, plans |-> plans]

Suppress ==
  /\ job.pc = "plan"
  /\ \E t \in Named : Full(t)
  /\ bucket' = AfterRefusal
  /\ job' = PlansLeft("plan", Tail(job.plans))
  /\ UNCHANGED <<clock, secrets, lastSent, due, post, failedAt, history>>

\* dispatch starts a post on every channel of the plan that has a pusher.
Release ==
  /\ job.pc = "plan"
  /\ \A t \in Named : ~Full(t)
  /\ bucket' = [t \in Tickers |-> Appended(Expired[t], Times(t))]
  /\ released' = [t \in Tickers |->
                    IF t \notin Named THEN released[t]
                    ELSE Append(released[t],
                                [at |-> clock, n |-> Times(t), life |-> crashes])]
  /\ post' = [c \in Channels |->
                IF c \in Head(job.plans) THEN Begun("post") ELSE Quiet]
  /\ job' = [job EXCEPT !.pc = "gather"]
  /\ UNCHANGED <<clock, secrets, lastSent, due, failedAt, bootedAt, messages, misses, crashes>>

-----------------------------------------------------------------------------
(* FeishuPusher.send and WecomPusher.send with async_retry *)

Done(c, copies, late, ok) ==
  post' = [post EXCEPT ![c] = [pc |-> "done", tries |-> 0, copies |-> copies,
                               late |-> late, ok |-> ok]]

PostStep(c) ==
  post[c].pc = "post" /\ UNCHANGED <<clock, memory, job, failedAt, history>>

\* Status 200 and code 0.
Accepted(c) ==
  /\ PostStep(c) /\ hooks[c] # NoHook
  /\ Done(c, post[c].copies + 1, post[c].late, TRUE)

\* Another status or code: an answer like any other, which is not retried.
AnsweredIsOk == TRUE
RefusedIsOk == FALSE
Refused(c) ==
  /\ PostStep(c) /\ hooks[c] # NoHook
  /\ Done(c, post[c].copies, post[c].late, RefusedIsOk)

\* An httpx.HTTPError: the webhook has the message, or not; the last attempt
\* gives up, another one follows after the backoff otherwise.
GiveUp(tries) == tries >= MaxAttempts

Fails(c, delivered) ==
  LET n == IF delivered THEN 1 ELSE 0
      tries == post[c].tries + 1
  IN /\ PostStep(c)
     /\ delivered => hooks[c] # NoHook
     /\ IF GiveUp(tries)
        THEN Done(c, post[c].copies + n, post[c].late + n, FALSE)
        ELSE post' = [post EXCEPT ![c] = [pc |-> "post", tries |-> tries,
                        copies |-> @.copies + n, late |-> @.late + n, ok |-> FALSE]]

\* Any other exception: gather turns it into a failed result.
Raises(c) == PostStep(c) /\ Done(c, post[c].copies, post[c].late, FALSE)

\* All results are in.
Gathered == \A c \in Channels : post[c].pc # "post"

Gather ==
  /\ job.pc = "gather" /\ Gathered
  /\ job' = [job EXCEPT !.pc = "log"]
  /\ UNCHANGED <<clock, memory, post, failedAt, history>>

\* push_log.write for one result after the other.
WriteLog(c) ==
  /\ job.pc = "log" /\ post[c].pc = "done"
  /\ failedAt' = IF post[c].ok THEN failedAt
                 ELSE [failedAt EXCEPT ![c] = Append(@, clock)]
  /\ post' = [post EXCEPT ![c] = Quiet]
  /\ UNCHANGED <<clock, memory, job, history>>

PlanDone ==
  /\ job.pc = "log" /\ \A c \in Channels : post[c].pc # "done"
  /\ job' = PlansLeft("plan", Tail(job.plans))
  /\ UNCHANGED <<clock, memory, post, failedAt, history>>

-----------------------------------------------------------------------------
(* alert_on_push_failures *)

FailuresOpen(c) == {i \in DOMAIN failedAt[c] : failedAt[c][i] > clock - FailWindow}
Failures(c) == {i \in DOMAIN failedAt[c] : failedAt[c][i] >= clock - FailWindow}

Failing == {c \in Channels : Cardinality(Failures(c)) >= FailThreshold}

\* BarkAlerter.send: at most once in a throttle, armed before the request.
Armed(c) ==
  IF lastSent[c] # Never /\ clock - lastSent[c] < Throttle THEN lastSent[c] ELSE clock

AlertJob ==
  /\ clock = due
  /\ due' = due + Period
  /\ lastSent' = [c \in Channels |-> IF c \in Failing THEN Armed(c) ELSE lastSent[c]]
  /\ UNCHANGED <<clock, secrets, bucket, job, post, failedAt, history>>

\* The loop was busy for longer than the grace time: the run is dropped.
AlertMissed ==
  /\ clock = due /\ Disturbable
  /\ misses' = misses + 1
  /\ due' = due + Period
  /\ UNCHANGED <<clock, secrets, bucket, lastSent, job, post, failedAt, released,
                 bootedAt, messages, crashes>>

-----------------------------------------------------------------------------

Answer(c) ==
  Accepted(c) \/ Refused(c) \/ Raises(c) \/ \E delivered \in BOOLEAN : Fails(c, delivered)

Push ==
  \/ Suppress \/ Release \/ Gather \/ PlanDone
  \/ \E c \in Channels : WriteLog(c)

Next ==
  \/ Tick \/ Crash \/ AlertJob \/ AlertMissed
  \/ \E m \in Messages : Take(m)
  \/ Push
  \/ \E c \in Channels : Answer(c)

Spec == Init /\ [][Next]_vars

-----------------------------------------------------------------------------
(* Properties *)

\* Every variable has its type.
TypeOK ==
  /\ clock \in 0..MaxClock /\ due \in Nat /\ bootedAt \in Nat
  /\ messages \in 0..MaxMessages /\ misses \in Nat /\ crashes \in Nat
  /\ secrets \in SecretsFiles
  /\ bucket \in [Tickers -> Seq(Nat)]
  /\ lastSent \in [Channels -> Nat \cup {Never}]
  /\ failedAt \in [Channels -> Seq(Nat)]
  /\ released \in [Tickers -> Seq([at : Nat, n : Nat, life : Nat])]
  /\ job \in [pc : {"idle", "plan", "gather", "log"}, tickers : Seq(Tickers),
              plans : Seq(SUBSET DOMAIN ChannelDefs)]
  /\ post \in [Channels -> [pc : {"none", "post", "done"}, tries : 0..MaxAttempts - 1,
                            copies : Nat, late : Nat, ok : BOOLEAN]]

\* A ticker is in at most Threshold messages of any window, however those of
\* several tickers overlap, and since the buckets die with the process, in at
\* most Threshold more for every restart within the window.
BurstBound ==
  \A t \in Tickers : \A i \in DOMAIN released[t] : \A j \in i + 1..Len(released[t]) :
    LET first == released[t][i]
        last  == released[t][j]
    IN j >= i + Threshold * (last.life - first.life + 1) => last.at - first.at > Window

\* The mentions of a ticker in what this life of the process has sent, as
\* <<release, number>>, and those within the window.
Own(r) == {i \in DOMAIN r : r[i].life = crashes}
Mentions(r) == UNION {{i} \X (1..r[i].n) : i \in Own(r)}
Recent(t) ==
  Cardinality({m \in Mentions(released[t]) : released[t][m[1]].at >= clock - Window})

\* A message is suppressed only after Threshold of them were sent: refusals
\* do not prolong the silence.
SuppressedInBurst ==
  [][job.pc = "plan" /\ job' # job /\ job'.pc # "gather" /\ crashes' = crashes
       => \E t \in Named : Recent(t) >= Threshold]_vars

\* "ok" means delivered; a channel gets a second copy, or a copy of what is
\* logged as failed, only when an answer was late.
ResultsAreTrue ==
  \A c \in Channels : post[c].pc = "done" =>
    /\ post[c].ok => post[c].copies > 0
    /\ post[c].copies <= post[c].late + (IF post[c].ok THEN 1 ELSE 0)

\* A channel of the quotes whose webhook is looked up under the bare flat key:
\* neither the nested key nor the _alert key is there.
Borrows(c) ==
  LET path == HookOf(c)
  IN /\ path[1] = "quote_watcher" /\ path \notin DOMAIN secrets.nested
     /\ AlertKey[path[2]] \notin DOMAIN secrets.flat
     /\ path[2] \in DOMAIN secrets.flat

\* Channels of the news and of the quotes post to the same webhook in one case
\* only: the channel of the quotes has no key of its own in secrets.yml and the
\* lookup falls through to the bare one.
NoCrossTalk ==
  \A c, d \in Channels :
    /\ HookOf(c)[1] = "quote_watcher" /\ HookOf(d)[1] = "news_pipeline"
    /\ hooks[c] = hooks[d] /\ hooks[c] # NoHook
    => Borrows(c)

\* What it supposes of channels.yml and secrets.yml: no news key ends where an
\* _alert key of the quotes does, and no webhook stands under two keys.
KeysSeparate ==
  \A c, d \in Channels :
    HookOf(c)[1] = "quote_watcher" /\ HookOf(d)[1] = "news_pipeline"
      => AlertKey[HookOf(c)[2]] # HookOf(d)[2]
SecretsSeparate ==
  \A s \in SecretsFiles :
    /\ \A p, q \in DOMAIN s.nested : s.nested[p] = s.nested[q] => p = q
    /\ \A k, l \in DOMAIN s.flat : s.flat[k] = s.flat[l] => k = l
    /\ \A p \in DOMAIN s.nested : \A k \in DOMAIN s.flat : s.nested[p] # s.flat[k]

\* FailThreshold failures close enough to each other are noticed by a run of
\* the job, although some runs are missed, and the throttle does not hide it.
FailuresAreNoticed ==
  \A c \in Channels : \A i \in DOMAIN failedAt[c] :
    LET j == i + FailThreshold - 1
        delay == (misses + 1) * Period
    IN /\ j \in DOMAIN failedAt[c]
       /\ failedAt[c][j] - failedAt[c][i] <= FailWindow - delay
       /\ bootedAt <= failedAt[c][j]
       /\ clock > failedAt[c][j] + delay
       => lastSent[c] >= failedAt[c][j]
=============================================================================
