----------------------- MODULE ServiceAnswersProofs -------------------------
(***************************************************************************)
(* Proofs about what ExecutionService answers its clients on a stream that *)
(* is the only one open, for any number of streams and requests, on top of *)
(* the invariants of its threads.                                          *)
(***************************************************************************)
EXTENDS ExecutionServiceProofs

-----------------------------------------------------------------------------
(* What the client of a stream sees.  Every request written to it is       *)
(* unread, at work, answered or refused; the account below keeps them.     *)

Calm == {"nothing", "output", "failed"}
Ending == {"finishing", "awaiting", "done"}
Verdicts == {"none", "ok", "busy", "unsupported"}
Requests == [kind : {"start", "other"}, after : Replies \union {"pressed", "nothing"}]

\* Handlers of stream s at one of these steps.
HasJob(s, steps) == \E j \in 1..Latest : jobs[j].owner = s /\ jobs[j].step \in steps
Unanswered == {"accept", "lock", "create", "release", "replyLocked"}

\* How many requests of the stream have been read and neither answered nor refused.
Owed(s) ==
    (IF rpc[s] \in {"probed", "accept"} THEN 1 ELSE 0)
    + (IF HasJob(s, Unanswered) THEN 1 ELSE 0)
    + (IF HasJob(s, {"reply"}) THEN 1 ELSE 0)

\* The account of a stream: its client c, the requests in, the number n of them written,
\* the replies out, the last request rq, the status st, the position pos of its thread,
\* the requests owed, and whether a handler has yet to leave after an early return.
Account(c, in, n, out, rq, st, pos, owed, leaving) ==
    /\ LET known == Len(out) + Len(in) + owed + (IF st \in {"busy", "unsupported"} THEN 1 ELSE 0)
       IN  known <= n /\ (c # "gone" => known = n)
    /\ \A i \in 1..Len(in) : in[i].after \in Calm => i = 1 /\ owed = 0 /\ ~leaving
    /\ leaving /\ c # "gone" => out # <<>> /\ out[Len(out)] = "invalid"
    /\ st = "none" <=> pos \notin Ending
    /\ st = "unsupported" => rq.kind = "other"
    /\ st = "busy" => rq.after \notin Calm
    /\ rq.kind # "none" => Len(in) + 1 <= n
    /\ n <= 1 => rq.after = "nothing" /\ \A i \in 1..Len(in) : in[i].after = "nothing"

\* The account of a stream that has had the service to itself.
Accounted(s) ==
    s \notin shared =>
        Account(client[s], inbox[s], sent[s], outbox[s], request[s], status[s], rpc[s],
                Owed(s), HasJob(s, {"unlock"}))

MailTyped ==
    /\ DOMAIN client = Streams
    /\ inbox \in [Streams -> Seq(Requests)]
    /\ sent \in [Streams -> Nat]
    /\ outbox \in [Streams -> Seq(Replies)]
    /\ request \in [Streams -> Requests \union {NoRequest}]
    /\ status \in [Streams -> Verdicts]

\* The early returns answer with an error only, the others with the output.
RepliesFit ==
    \A j \in 1..Latest :
        /\ jobs[j].step \in {"replyLocked", "unlock"} => jobs[j].reply = "invalid"
        /\ jobs[j].step \in {"release", "reply"} => jobs[j].reply \in {"output", "failed"}

\* The busy lock is held by a stream that probes it or by a handler at work.
BusyHeld ==
    busy_lock_ # Nobody =>
        \/ \E s \in Streams : rpc[s] = "probed"
        \/ \E j \in 1..Latest : jobs[j].step \in Locked

\* A client goes away only after it came.
GoneWasOpen == \A s \in Streams : rpc[s] = "unopened" => client[s] = "absent"

QInv ==
    /\ RInv /\ MailTyped /\ RepliesFit /\ BusyHeld /\ GoneWasOpen
    /\ \A s \in Streams : Accounted(s)

\* The client writes a request.
LEMMA AccountWrites ==
    ASSUME NEW c, NEW in \in Seq(Requests), NEW n \in Nat, NEW out \in Seq(Replies), NEW rq,
           NEW st, NEW pos, NEW owed \in Nat, NEW leaving \in BOOLEAN,
           Account(c, in, n, out, rq, st, pos, owed, leaving), c = "writing",
           NEW next \in Seq(Requests), Len(next) = Len(in) + 1,
           \A i \in 1..Len(in) : next[i] = in[i],
           next[Len(in) + 1].after =
               (IF Len(out) < n THEN "pressed" ELSE IF n = 0 THEN "nothing" ELSE out[Len(out)])
    PROVE  Account(c, next, n + 1, out, rq, st, pos, owed, leaving)
<1> DEFINE refused == IF st \in {"busy", "unsupported"} THEN 1 ELSE 0
<1>1. Len(in) \in Nat /\ Len(out) \in Nat /\ refused \in Nat
  OBVIOUS
<1>2. Len(out) + Len(in) + owed + refused = n
  BY DEF Account
<1> HIDE DEF refused
<1>3. /\ Len(out) + Len(next) + owed + refused <= n + 1
      /\ Len(out) + Len(next) + owed + refused = n + 1
  <2>1. PICK a \in Nat, b \in Nat, d \in Nat, e \in Nat :
            a = Len(out) /\ b = Len(in) /\ d = refused /\ e = Len(next) /\ e = b + 1
    BY <1>1
  <2>2. a + b + owed + d = n
    BY <1>2, <2>1, Zenon
  <2>3. a + e + owed + d <= n + 1 /\ a + e + owed + d = n + 1
    BY <2>1, <2>2
  <2> QED
    BY <2>1, <2>3, Zenon
<1>4. ASSUME NEW i \in 1..Len(next), next[i].after \in Calm
      PROVE  i = 1 /\ owed = 0 /\ ~leaving
  <2>1. CASE i \in 1..Len(in)
    BY <1>4, <2>1 DEF Account
  <2>2. CASE i = Len(in) + 1
    <3>1. ~(Len(out) < n)
      BY <1>4, <2>2 DEF Calm
    <3>2. Len(in) = 0 /\ owed = 0
      BY <1>1, <1>2, <3>1
    <3>3. n = 0 => out = <<>>
      BY <1>1, <1>2
    <3>4. n # 0 => out[Len(out)] # "invalid"
      BY <1>4, <2>2, <3>1 DEF Calm
    <3>5. ~leaving
      BY <3>3, <3>4 DEF Account
    <3> QED
      BY <2>2, <3>2, <3>5
  <2> QED
    BY <1>1, <2>1, <2>2
<1>5. rq.kind # "none" => Len(next) + 1 <= n + 1
  BY <1>1 DEF Account
<1>6. ASSUME n + 1 <= 1
      PROVE  rq.after = "nothing" /\ \A i \in 1..Len(next) : next[i].after = "nothing"
  <2>1. n = 0 /\ n <= 1 /\ Len(out) = 0 /\ Len(in) = 0
    BY <1>1, <1>2, <1>6
  <2>2. rq.after = "nothing"
    BY <2>1 DEF Account
  <2>3. next[1].after = "nothing" /\ Len(next) = 1
    BY <2>1
  <2> QED
    BY <2>2, <2>3
<1> QED
  BY <1>3, <1>4, <1>5, <1>6 DEF Account, refused

LEMMA OneLess ==
    \A a, b, d, o, n \in Nat : d = b - 1 =>
        /\ a + b + o <= n => a + d + (o + 1) <= n /\ a + d + o + 1 <= n
        /\ a + b + o = n => a + d + (o + 1) = n /\ a + d + o + 1 = n
OBVIOUS

\* What is left of the requests in once the first has been read.
FollowsFirst(next, in) ==
    /\ in # <<>> /\ Len(next) = Len(in) - 1
    /\ \A i \in 1..Len(next) : next[i] = in[i + 1]

\* The stream's thread reads a request, and accepts or refuses it.
LEMMA AccountReads ==
    ASSUME NEW c, NEW in \in Seq(Requests), NEW n \in Nat, NEW out \in Seq(Replies), NEW rq,
           NEW st, NEW owed \in Nat, NEW leaving \in BOOLEAN,
           Account(c, in, n, out, rq, st, "read", owed, leaving),
           NEW next \in Seq(Requests), FollowsFirst(next, in)
    PROVE  /\ Account(c, next, n, out, in[1], st, "probed", owed + 1, leaving)
           /\ in[1].after \notin Calm =>
                  Account(c, next, n, out, in[1], "busy", "finishing", owed, leaving)
           /\ in[1].kind = "other" =>
                  Account(c, next, n, out, in[1], "unsupported", "finishing", owed, leaving)
<1>1. /\ Len(in) \in Nat /\ Len(out) \in Nat /\ Len(next) \in Nat /\ Len(in) > 0 /\ st = "none"
  BY DEF Account, FollowsFirst, Ending
<1>2. /\ Len(out) + Len(in) + owed <= n
      /\ c # "gone" => Len(out) + Len(in) + owed = n
  BY <1>1 DEF Account
<1>3. /\ Len(out) + Len(next) + (owed + 1) <= n
      /\ c # "gone" => Len(out) + Len(next) + (owed + 1) = n
      /\ Len(out) + Len(next) + owed + 1 <= n
      /\ c # "gone" => Len(out) + Len(next) + owed + 1 = n
  BY <1>1, <1>2, OneLess DEF FollowsFirst
<1>4. \A i \in 1..Len(next) : i + 1 \in 1..Len(in) /\ i + 1 # 1 /\ next[i] = in[i + 1]
  BY <1>1 DEF FollowsFirst
<1>5. \A i \in 1..Len(next) : next[i].after \notin Calm
  BY <1>4 DEF Account
<1>6. leaving /\ c # "gone" => out # <<>> /\ out[Len(out)] = "invalid"
  BY DEF Account
<1>7. Len(next) + 1 <= n
  BY <1>1, <1>2 DEF FollowsFirst
<1>8. ASSUME n <= 1
      PROVE  in[1].after = "nothing" /\ \A i \in 1..Len(next) : next[i].after = "nothing"
  <2>1. 1 \in 1..Len(in)
    BY <1>1
  <2>2. \A i \in 1..Len(in) : in[i].after = "nothing"
    BY <1>8 DEF Account
  <2> QED
    BY <1>4, <2>1, <2>2
<1>9. Account(c, next, n, out, in[1], st, "probed", owed + 1, leaving)
  BY <1>1, <1>3, <1>5, <1>6, <1>7, <1>8 DEF Account, Ending
<1>10. ASSUME in[1].after \notin Calm
       PROVE  Account(c, next, n, out, in[1], "busy", "finishing", owed, leaving)
  BY <1>3, <1>5, <1>6, <1>7, <1>8, <1>10 DEF Account, Ending
<1>11. ASSUME in[1].kind = "other"
       PROVE  Account(c, next, n, out, in[1], "unsupported", "finishing", owed, leaving)
  BY <1>3, <1>5, <1>6, <1>7, <1>8, <1>11 DEF Account, Ending
<1> QED
  BY <1>9, <1>10, <1>11

\* The thread moves on within the life of the stream, the client goes away, or a handler
\* that returned early is gone.
LEMMA AccountMoves ==
    ASSUME NEW c, NEW in \in Seq(Requests), NEW n \in Nat, NEW out \in Seq(Replies), NEW rq,
           NEW st, NEW pos, NEW owed \in Nat, NEW leaving \in BOOLEAN,
           Account(c, in, n, out, rq, st, pos, owed, leaving),
           NEW c2, c = "gone" => c2 = "gone",
           NEW pos2, pos2 \in Ending <=> pos \in Ending,
           NEW leaving2 \in BOOLEAN, leaving2 => leaving
    PROVE  Account(c2, in, n, out, rq, st, pos2, owed, leaving2)
BY DEF Account

\* A reply reaches the client, unless it is gone.
Delivered(c, out, reply) == IF c # "gone" THEN Append(out, reply) ELSE out

LEMMA AccountAnswers ==
    ASSUME NEW c, NEW in \in Seq(Requests), NEW n \in Nat, NEW out \in Seq(Replies), NEW rq,
           NEW st, NEW pos, NEW owed \in Nat, NEW leaving \in BOOLEAN,
           Account(c, in, n, out, rq, st, pos, owed + 1, leaving),
           NEW reply \in Replies, NEW leaving2 \in BOOLEAN, leaving2 => reply = "invalid"
    PROVE  Account(c, in, n, Delivered(c, out, reply), rq, st, pos, owed, leaving2)
<1>0. PICK next : next = Delivered(c, out, reply)
  OBVIOUS
<1> DEFINE refused == IF st \in {"busy", "unsupported"} THEN 1 ELSE 0
<1>1. Len(in) \in Nat /\ Len(out) \in Nat /\ refused \in Nat
  OBVIOUS
<1>2. /\ Len(out) + Len(in) + (owed + 1) + refused <= n
      /\ c # "gone" => Len(out) + Len(in) + (owed + 1) + refused = n
  BY DEF Account
<1>3. \A i \in 1..Len(in) : in[i].after \notin Calm
  BY DEF Account
<1>4. CASE c # "gone"
  <2>1. next = Append(out, reply) /\ next # <<>> /\ Len(next) = Len(out) + 1
        /\ next[Len(next)] = reply
    BY <1>0, <1>4 DEF Delivered
  <2>2. Len(next) + Len(in) + owed + refused = n
    BY <1>1, <1>2, <1>4, <2>1
  <2> QED
    BY <1>0, <1>1, <1>2, <1>3, <1>4, <2>1, <2>2 DEF Account
<1>5. CASE c = "gone"
  <2>1. next = out /\ Len(out) + Len(in) + owed + refused <= n
    BY <1>0, <1>1, <1>2, <1>5 DEF Delivered
  <2> QED
    BY <1>0, <1>3, <1>5, <2>1 DEF Account
<1> QED
  BY <1>4, <1>5

-----------------------------------------------------------------------------
(* How the steps of the service move the accounts.                         *)

\* The handlers of a stream before and after handler j moves.
LEMMA HasJobMoves ==
    ASSUME IInv, NEW j \in 1..Latest, NEW to, Moves(j, to), NEW t, NEW steps
    PROVE  /\ HasJob(t, steps) <=>
                  \/ \E i \in 1..Latest \ {j} : jobs[i].owner = t /\ jobs[i].step \in steps
                  \/ jobs[j].owner = t /\ jobs[j].step \in steps
           /\ HasJob(t, steps)' <=>
                  \/ \E i \in 1..Latest \ {j} : jobs[i].owner = t /\ jobs[i].step \in steps
                  \/ jobs[j].owner = t /\ to \in steps
<1>1. HasJob(t, steps) <=>
          \/ \E i \in 1..Latest \ {j} : jobs[i].owner = t /\ jobs[i].step \in steps
          \/ jobs[j].owner = t /\ jobs[j].step \in steps
  BY DEF HasJob
<1>2. (\E i \in 1..Latest : jobs'[i].owner = t /\ jobs'[i].step \in steps) <=>
          \/ \E i \in 1..Latest \ {j} : jobs[i].owner = t /\ jobs[i].step \in steps
          \/ jobs[j].owner = t /\ to \in steps
  BY DEF Moves
<1>3. Latest' = Latest
  BY DEF Moves
<1> QED
  BY <1>1, <1>2, <1>3 DEF HasJob

\* The types of what the accounts are about.
LEMMA MailFacts ==
    ASSUME MailTyped, NEW s \in Streams
    PROVE  /\ inbox[s] \in Seq(Requests) /\ sent[s] \in Nat /\ outbox[s] \in Seq(Replies)
           /\ request[s] \in Requests \union {NoRequest} /\ status[s] \in Verdicts
           /\ Owed(s) \in Nat /\ HasJob(s, {"unlock"}) \in BOOLEAN
BY DEF MailTyped, Owed, HasJob

\* Nothing that the account of a stream is about changes.
LEMMA AccountKept ==
    ASSUME NEW t, Accounted(t), shared \subseteq shared',
           /\ client'[t] = client[t] /\ inbox'[t] = inbox[t] /\ sent'[t] = sent[t]
           /\ outbox'[t] = outbox[t] /\ request'[t] = request[t]
           /\ status'[t] = status[t] /\ rpc'[t] = rpc[t]
           /\ Owed(t)' = Owed(t) /\ HasJob(t, {"unlock"})' = HasJob(t, {"unlock"})
    PROVE  Accounted(t)'
BY DEF Accounted

\* Handlers stand still: what is owed depends on the position of the stream only.
LEMMA SameJobs ==
    ASSUME jobs' = jobs
    PROVE  /\ Latest' = Latest
           /\ \A t, steps : HasJob(t, steps)' = HasJob(t, steps)
           /\ \A t \in Streams :
                  (rpc'[t] \in {"probed", "accept"} <=> rpc[t] \in {"probed", "accept"})
                      => Owed(t)' = Owed(t)
           /\ \A t \in Streams :
                  rpc'[t] = "probed" /\ rpc[t] \notin {"probed", "accept"}
                      => Owed(t)' = Owed(t) + 1
<1>1. Latest' = Latest
  BY DEF Latest
<1>2. \A t, steps : HasJob(t, steps)' = HasJob(t, steps)
  BY <1>1 DEF HasJob
<1> QED
  BY <1>1, <1>2 DEF Owed

\* A client writes, is done writing, or goes away.
LEMMA ClientAccounts ==
    ASSUME QInv, NEW s \in Streams, NEW kind \in {"start", "other"},
           ClientWritesDone(s) \/ ClientBreaks(s) \/ ClientWrites(s, kind)
    PROVE  MailTyped' /\ \A t \in Streams : Accounted(t)'
<1>1. MailTyped /\ \A t \in Streams : Accounted(t)
  BY DEF QInv
<1>2. UNCHANGED <<outbox, rpc, request, status, jobs, shared>>
  BY DEF ClientWritesDone, ClientBreaks, ClientWrites, endVars
<1>3. \A t \in Streams : Owed(t)' = Owed(t) /\ HasJob(t, {"unlock"})' = HasJob(t, {"unlock"})
  BY <1>2, SameJobs
<1>4. CASE ClientWritesDone(s) \/ ClientBreaks(s)
  <2>1. PICK x \in {"halfclosed", "gone"} :
            client' = [client EXCEPT ![s] = x] /\ (client[s] = "gone" => x = "gone")
    BY <1>4 DEF ClientWritesDone, ClientBreaks
  <2>2. UNCHANGED <<inbox, sent>>
    BY <1>4 DEF ClientWritesDone, ClientBreaks
  <2>3. /\ DOMAIN client' = Streams /\ client'[s] = x
        /\ \A t \in Streams \ {s} : client'[t] = client[t]
    BY <1>1, <2>1 DEF MailTyped
  <2>4. MailTyped'
    BY <1>1, <1>2, <2>2, <2>3 DEF MailTyped
  <2>5. ASSUME NEW t \in Streams \ {s} PROVE Accounted(t)'
    BY <1>1, <1>2, <1>3, <2>2, <2>3, AccountKept, Zenon
  <2>6. ASSUME s \notin shared
        PROVE  Account(x, inbox[s], sent[s], outbox[s], request[s], status[s], rpc[s],
                       Owed(s), HasJob(s, {"unlock"}))
    BY <1>1, <2>1, <2>6, MailFacts, AccountMoves DEF Accounted
  <2>7. Accounted(s)'
    BY <1>2, <1>3, <2>2, <2>3, <2>6, Zenon DEF Accounted
  <2> QED
    BY <2>4, <2>5, <2>7
<1>5. CASE ClientWrites(s, kind)
  <2> DEFINE rq == [kind |-> kind, after |-> Known(s)]
             next == Append(inbox[s], rq)
  <2>1. /\ client[s] = "writing" /\ UNCHANGED client
        /\ sent' = [sent EXCEPT ![s] = @ + 1]
        /\ inbox' = [inbox EXCEPT ![s] = next]
    BY <1>5 DEF ClientWrites
  <2>2. /\ inbox[s] \in Seq(Requests) /\ sent[s] \in Nat /\ outbox[s] \in Seq(Replies)
        /\ Owed(s) \in Nat /\ HasJob(s, {"unlock"}) \in BOOLEAN
    BY <1>1, MailFacts
  <2>3. Known(s) \in Replies \union {"pressed", "nothing"}
    <3>1. Len(outbox[s]) >= sent[s] /\ sent[s] # 0 => Len(outbox[s]) \in 1..Len(outbox[s])
      BY <2>2
    <3>2. Len(outbox[s]) >= sent[s] /\ sent[s] # 0 => outbox[s][Len(outbox[s])] \in Replies
      BY <2>2, <3>1
    <3> QED
      BY <2>2, <3>2 DEF Known
  <2>4. rq \in Requests
    BY <2>3 DEF Requests
  <2>5. rq.after = Known(s)
    OBVIOUS
  <2> HIDE DEF rq
  <2>6. /\ next \in Seq(Requests) /\ Len(next) = Len(inbox[s]) + 1
        /\ next[Len(inbox[s]) + 1] = rq
        /\ \A i \in 1..Len(inbox[s]) : next[i] = inbox[s][i]
    BY <2>2, <2>4
  <2> HIDE DEF next
  <2>7. /\ sent'[s] = sent[s] + 1 /\ inbox'[s] = next
        /\ \A t \in Streams \ {s} : sent'[t] = sent[t] /\ inbox'[t] = inbox[t]
        /\ sent' \in [Streams -> Nat] /\ inbox' \in [Streams -> Seq(Requests)]
    BY <1>1, <2>1, <2>2, <2>6 DEF MailTyped
  <2>8. MailTyped'
    BY <1>1, <1>2, <2>1, <2>7 DEF MailTyped
  <2>9. ASSUME NEW t \in Streams \ {s} PROVE Accounted(t)'
    BY <1>1, <1>2, <1>3, <2>1, <2>7, AccountKept
  <2>10. next[Len(inbox[s]) + 1].after =
            (IF Len(outbox[s]) < sent[s] THEN "pressed"
             ELSE IF sent[s] = 0 THEN "nothing" ELSE outbox[s][Len(outbox[s])])
    BY <2>5, <2>6 DEF Known
  <2>11. ASSUME s \notin shared
         PROVE  Account(client[s], inbox[s], sent[s], outbox[s], request[s], status[s], rpc[s],
                        Owed(s), HasJob(s, {"unlock"}))
    BY <1>1, <2>11 DEF Accounted
  <2>12. ASSUME s \notin shared
         PROVE  Account(client[s], next, sent[s] + 1, outbox[s], request[s], status[s], rpc[s],
                        Owed(s), HasJob(s, {"unlock"}))
    BY <2>1, <2>2, <2>6, <2>10, <2>11, <2>12, AccountWrites, Zenon
  <2>13. Accounted(s)'
    BY <1>2, <1>3, <2>1, <2>7, <2>12 DEF Accounted
  <2> QED
    BY <2>8, <2>9, <2>13
<1> QED
  BY <1>4, <1>5

\* A stream opens.
LEMMA OpensAccounts ==
    ASSUME QInv, NEW s \in Streams, ClientOpens(s)
    PROVE  MailTyped' /\ \A t \in Streams : Accounted(t)'
<1>1. MailTyped /\ DOMAIN rpc = Streams /\ \A t \in Streams : Accounted(t)
  BY DEF QInv, RInv, IInv, Typed
<1>2. /\ rpc[s] = "unopened" /\ rpc' = [rpc EXCEPT ![s] = "read"]
      /\ client' = [client EXCEPT ![s] = "writing"]
      /\ shared \subseteq shared'
      /\ UNCHANGED <<inbox, sent, outbox, request, status, jobs>>
  BY DEF ClientOpens
<1>3. /\ rpc'[s] = "read" /\ client'[s] = "writing" /\ DOMAIN client' = Streams
      /\ \A t \in Streams \ {s} : rpc'[t] = rpc[t] /\ client'[t] = client[t]
  BY <1>1, <1>2 DEF MailTyped
<1>4. \A t \in Streams : Owed(t)' = Owed(t) /\ HasJob(t, {"unlock"})' = HasJob(t, {"unlock"})
  BY <1>2, <1>3, SameJobs
<1>5. MailTyped'
  BY <1>1, <1>2, <1>3 DEF MailTyped
<1>6. ASSUME NEW t \in Streams \ {s} PROVE Accounted(t)'
  BY <1>1, <1>2, <1>3, <1>4, AccountKept
<1>7. ASSUME s \notin shared
      PROVE  Account(client[s], inbox[s], sent[s], outbox[s], request[s], status[s], rpc[s],
                     Owed(s), HasJob(s, {"unlock"}))
  BY <1>1, <1>7 DEF Accounted
<1>8. client[s] # "gone"
  BY <1>2 DEF QInv, GoneWasOpen
<1>9. ASSUME s \notin shared
      PROVE  Account("writing", inbox[s], sent[s], outbox[s], request[s], status[s], "read",
                     Owed(s), HasJob(s, {"unlock"}))
  BY <1>2, <1>7, <1>8, <1>9, Zenon DEF Account, Ending
<1>10. Accounted(s)'
  BY <1>2, <1>3, <1>4, <1>9 DEF Accounted
<1> QED
  BY <1>5, <1>6, <1>10

\* The thread of a stream that reads meets the busy lock held only while a handler of this
\* stream works or leaves.
LEMMA BusyMeansPressed ==
    ASSUME QInv, NEW s \in Streams, s \notin shared, rpc[s] = "read", busy_lock_ # Nobody,
           inbox[s] # <<>>
    PROVE  inbox[s][1].after \notin Calm
<1>1. s \in Alone /\ Open(s) /\ RInv
  BY DEF Alone, Open, QInv
<1>2. \A t \in Streams : rpc[t] # "probed"
  BY <1>1 DEF RInv, SoleOpen, Open
<1>3. PICK j \in 1..Latest : jobs[j].step \in Locked
  BY <1>2 DEF QInv, BusyHeld
<1>4. jobs[j].owner = s
  BY <1>1, <1>3, OwnerIsAlone DEF Locked
<1>5. HasJob(s, Unanswered) \/ HasJob(s, {"unlock"})
  BY <1>3, <1>4 DEF HasJob, Locked, Unanswered
<1>6. Owed(s) # 0 \/ HasJob(s, {"unlock"})
  BY <1>5 DEF Owed
<1>7. 1 \in 1..Len(inbox[s])
  BY MailFacts DEF QInv
<1>8. inbox[s][1].after \in Calm => Owed(s) = 0 /\ ~HasJob(s, {"unlock"})
  BY <1>7, Zenon DEF QInv, Accounted, Account
<1> QED
  BY <1>6, <1>8

\* What a stream's thread takes out of its inbox.
LEMMA ReadingTakesFirst ==
    ASSUME MailTyped, NEW s \in Streams, inbox[s] # <<>>,
           request' = [request EXCEPT ![s] = Head(inbox[s])],
           inbox' = [inbox EXCEPT ![s] = Tail(@)]
    PROVE  /\ inbox'[s] \in Seq(Requests) /\ Len(inbox'[s]) = Len(inbox[s]) - 1
           /\ \A i \in 1..Len(inbox'[s]) : inbox'[s][i] = inbox[s][i + 1]
           /\ request'[s] = inbox[s][1] /\ Head(inbox[s]) = inbox[s][1]
           /\ \A t \in Streams \ {s} : inbox'[t] = inbox[t] /\ request'[t] = request[t]
           /\ inbox' \in [Streams -> Seq(Requests)]
           /\ request' \in [Streams -> Requests \union {NoRequest}]
<1>1. inbox[s] \in Seq(Requests)
  BY MailFacts
<1>2. /\ Head(inbox[s]) \in Requests /\ Tail(inbox[s]) \in Seq(Requests)
      /\ Len(Tail(inbox[s])) = Len(inbox[s]) - 1 /\ Head(inbox[s]) = inbox[s][1]
      /\ \A i \in 1..Len(Tail(inbox[s])) : Tail(inbox[s])[i] = inbox[s][i + 1]
  BY <1>1
<1>3. inbox'[s] = Tail(inbox[s]) /\ request'[s] = Head(inbox[s])
  BY DEF MailTyped
<1>4. /\ \A t \in Streams \ {s} : inbox'[t] = inbox[t] /\ request'[t] = request[t]
      /\ inbox' \in [Streams -> Seq(Requests)]
      /\ request' \in [Streams -> Requests \union {NoRequest}]
  BY <1>2 DEF MailTyped
<1> QED
  BY <1>2, <1>3, <1>4

\* The stream's thread reads.
LEMMA ReadsAccounts ==
    ASSUME QInv, NEW s \in Streams, ReadsStart(s) \/ ReadsOther(s)
    PROVE  MailTyped' /\ \A t \in Streams : Accounted(t)'
<1>1. MailTyped /\ DOMAIN rpc = Streams /\ \A t \in Streams : Accounted(t)
  BY DEF QInv, RInv, IInv, Typed
<1>2. /\ rpc[s] = "read" /\ inbox[s] # <<>>
      /\ request' = [request EXCEPT ![s] = Head(inbox[s])]
      /\ inbox' = [inbox EXCEPT ![s] = Tail(@)]
      /\ UNCHANGED <<client, sent, outbox, jobs, shared>>
  BY DEF ReadsStart, ReadsOther, endVars
<1>3. /\ inbox'[s] \in Seq(Requests) /\ Len(inbox'[s]) = Len(inbox[s]) - 1
      /\ \A i \in 1..Len(inbox'[s]) : inbox'[s][i] = inbox[s][i + 1]
      /\ request'[s] = inbox[s][1] /\ Head(inbox[s]) = inbox[s][1]
      /\ \A t \in Streams \ {s} : inbox'[t] = inbox[t] /\ request'[t] = request[t]
      /\ inbox' \in [Streams -> Seq(Requests)]
      /\ request' \in [Streams -> Requests \union {NoRequest}]
  BY <1>1, <1>2, ReadingTakesFirst, Zenon
<1>4. /\ inbox[s] \in Seq(Requests) /\ sent[s] \in Nat /\ outbox[s] \in Seq(Replies)
      /\ Owed(s) \in Nat /\ HasJob(s, {"unlock"}) \in BOOLEAN
  BY <1>1, MailFacts
<1>5. ASSUME s \notin shared
      PROVE  Account(client[s], inbox[s], sent[s], outbox[s], request[s], status[s], "read",
                     Owed(s), HasJob(s, {"unlock"}))
  BY <1>1, <1>2, <1>5 DEF Accounted
<1>0. PICK next \in Seq(Requests) : next = inbox'[s]
  BY <1>3
<1>6. ASSUME s \notin shared
      PROVE  /\ Account(client[s], next, sent[s], outbox[s], inbox[s][1], status[s], "probed",
                        Owed(s) + 1, HasJob(s, {"unlock"}))
             /\ inbox[s][1].after \notin Calm =>
                    Account(client[s], next, sent[s], outbox[s], inbox[s][1], "busy", "finishing",
                            Owed(s), HasJob(s, {"unlock"}))
             /\ inbox[s][1].kind = "other" =>
                    Account(client[s], next, sent[s], outbox[s], inbox[s][1], "unsupported",
                            "finishing", Owed(s), HasJob(s, {"unlock"}))
  <2>1. FollowsFirst(next, inbox[s])
    BY <1>0, <1>2, <1>3 DEF FollowsFirst
  <2>2. PICK leaving \in BOOLEAN : leaving = HasJob(s, {"unlock"})
    BY <1>4
  <2>3. Account(client[s], inbox[s], sent[s], outbox[s], request[s], status[s], "read",
                Owed(s), leaving)
    BY <1>5, <1>6, <2>2
  <2>4. Account(client[s], next, sent[s], outbox[s], inbox[s][1], status[s], "probed",
                 Owed(s) + 1, leaving)
    BY <1>0, <1>4, <2>1, <2>3, AccountReads
  <2> QED
    BY <1>0, <1>4, <2>1, <2>2, <2>3, AccountReads
<1>7. ASSUME NEW x, rpc' = [rpc EXCEPT ![s] = x], NEW v \in Verdicts,
             status' = [status EXCEPT ![s] = v], NEW owed, Owed(s)' = owed,
             s \notin shared => Account(client[s], next, sent[s], outbox[s], inbox[s][1], v, x,
                                       owed, HasJob(s, {"unlock"}))
      PROVE  MailTyped' /\ \A t \in Streams : Accounted(t)'
  <2>1. /\ rpc'[s] = x /\ status'[s] = v /\ status' \in [Streams -> Verdicts]
        /\ \A t \in Streams \ {s} : rpc'[t] = rpc[t] /\ status'[t] = status[t]
    BY <1>1, <1>7 DEF MailTyped
  <2>2. MailTyped'
    BY <1>1, <1>2, <1>3, <2>1 DEF MailTyped
  <2>3. /\ \A t \in Streams \ {s} : Owed(t)' = Owed(t)
        /\ \A t \in Streams : HasJob(t, {"unlock"})' = HasJob(t, {"unlock"})
    BY <1>2, <2>1, SameJobs
  <2>4. ASSUME NEW t \in Streams \ {s} PROVE Accounted(t)'
    BY <1>1, <1>2, <1>3, <2>1, <2>3, AccountKept
  <2>5. Accounted(s)'
    BY <1>0, <1>2, <1>3, <1>7, <2>1, <2>3, Zenon DEF Accounted
  <2> QED
    BY <2>2, <2>4, <2>5
<1>8. CASE ReadsStart(s) /\ busy_lock_ = Nobody
  <2>1. rpc' = [rpc EXCEPT ![s] = "probed"] /\ status' = status
    BY <1>8 DEF ReadsStart
  <2>2. status' = [status EXCEPT ![s] = status[s]] /\ status[s] \in Verdicts
    BY <1>1, <2>1 DEF MailTyped
  <2>3. rpc'[s] = "probed"
    BY <1>1, <2>1
  <2>4. Owed(s)' = Owed(s) + 1
    BY <1>2, <2>3, SameJobs
  <2> QED
    BY <1>6, <1>7, <2>1, <2>2, <2>4, Zenon
<1>9. ASSUME NEW v \in Verdicts, Finishing(s, v)
      PROVE  /\ rpc' = [rpc EXCEPT ![s] = "finishing"]
             /\ status' = [status EXCEPT ![s] = v] /\ Owed(s)' = Owed(s)
  <2>1. rpc' = [rpc EXCEPT ![s] = "finishing"] /\ status' = [status EXCEPT ![s] = v]
    BY <1>9 DEF Finishing
  <2>2. rpc'[s] = "finishing"
    BY <1>1, <2>1
  <2> QED
    BY <1>2, <2>1, <2>2, SameJobs
<1>10. CASE ReadsStart(s) /\ busy_lock_ # Nobody
  <2>1. Finishing(s, "busy") /\ "busy" \in Verdicts
    BY <1>10 DEF ReadsStart, Verdicts
  <2>2. s \notin shared => inbox[s][1].after \notin Calm
    BY <1>2, <1>10, BusyMeansPressed
  <2> QED
    BY <1>6, <1>7, <1>9, <2>1, <2>2
<1>11. CASE ReadsOther(s)
  <2>1. Finishing(s, "unsupported") /\ "unsupported" \in Verdicts
    BY <1>11 DEF ReadsOther, Verdicts
  <2>2. inbox[s][1].kind = "other"
    BY <1>3, <1>11 DEF ReadsOther
  <2> QED
    BY <1>6, <1>7, <1>9, <2>1, <2>2, Zenon
<1> QED
  BY <1>8, <1>10, <1>11

\* The stream's thread moves on without reading or launching.
LEMMA ThreadAccounts ==
    ASSUME QInv, NEW s \in Streams,
           \/ ReadsEnd(s) \/ Unlocks(s) \/ Waits(s) \/ Wakes(s)
           \/ AwaitsFuture(s) \/ finishGrpcStream(s)
    PROVE  MailTyped' /\ \A t \in Streams : Accounted(t)'
<1>1. MailTyped /\ DOMAIN rpc = Streams /\ \A t \in Streams : Accounted(t)
  BY DEF QInv, RInv, IInv, Typed
<1>2. UNCHANGED <<client, inbox, sent, outbox, request, jobs, shared>>
  BY DEF ReadsEnd, Unlocks, Waits, Wakes, AwaitsFuture, finishGrpcStream, endVars
<1>3. \A t \in Streams : HasJob(t, {"unlock"})' = HasJob(t, {"unlock"})
  BY <1>2, SameJobs
<1>4. ASSUME s \notin shared
      PROVE  Account(client[s], inbox[s], sent[s], outbox[s], request[s], status[s], rpc[s],
                     Owed(s), HasJob(s, {"unlock"}))
  BY <1>1, <1>4 DEF Accounted
<1>5. ASSUME NEW x, rpc' = [rpc EXCEPT ![s] = x], NEW v \in Verdicts,
             status' = [status EXCEPT ![s] = v],
             x \in {"probed", "accept"} <=> rpc[s] \in {"probed", "accept"},
             s \notin shared => Account(client[s], inbox[s], sent[s], outbox[s], request[s], v, x,
                                       Owed(s), HasJob(s, {"unlock"}))
      PROVE  MailTyped' /\ \A t \in Streams : Accounted(t)'
  <2>1. /\ rpc'[s] = x /\ status'[s] = v /\ status' \in [Streams -> Verdicts]
        /\ \A t \in Streams \ {s} : rpc'[t] = rpc[t] /\ status'[t] = status[t]
    BY <1>1, <1>5 DEF MailTyped
  <2>2. MailTyped'
    BY <1>1, <1>2, <2>1 DEF MailTyped
  <2>3. \A t \in Streams : Owed(t)' = Owed(t)
    BY <1>2, <1>5, <2>1, SameJobs, Zenon
  <2>4. ASSUME NEW t \in Streams \ {s} PROVE Accounted(t)'
    BY <1>1, <1>2, <1>3, <2>1, <2>3, AccountKept, Zenon
  <2>5. Accounted(s)'
    BY <1>2, <1>3, <1>5, <2>1, <2>3, Zenon DEF Accounted
  <2> QED
    BY <2>2, <2>4, <2>5
<1>6. CASE ReadsEnd(s)
  <2>1. /\ rpc[s] = "read" /\ rpc' = [rpc EXCEPT ![s] = "finishing"]
        /\ status' = [status EXCEPT ![s] = "ok"] /\ "ok" \in Verdicts
    BY <1>6, Zenon DEF ReadsEnd, Finishing, Verdicts
  <2>2. ASSUME s \notin shared
        PROVE  Account(client[s], inbox[s], sent[s], outbox[s], request[s], "ok", "finishing",
                       Owed(s), HasJob(s, {"unlock"}))
    BY <1>4, <2>1, <2>2, Zenon DEF Account, Ending
  <2>3. "finishing" \in {"probed", "accept"} <=> rpc[s] \in {"probed", "accept"}
    BY <2>1
  <2> QED
    BY <1>5, <2>1, <2>2, <2>3, Zenon
<1>7. ASSUME NEW x, rpc' = [rpc EXCEPT ![s] = x], status' = status,
             x \in {"probed", "accept"} <=> rpc[s] \in {"probed", "accept"},
             x \in Ending <=> rpc[s] \in Ending
      PROVE  MailTyped' /\ \A t \in Streams : Accounted(t)'
  <2>1. status' = [status EXCEPT ![s] = status[s]] /\ status[s] \in Verdicts
    BY <1>1, <1>7 DEF MailTyped
  <2>2. ASSUME s \notin shared
        PROVE  Account(client[s], inbox[s], sent[s], outbox[s], request[s], status[s], x,
                       Owed(s), HasJob(s, {"unlock"}))
    BY <1>4, <1>7, <2>2, Zenon DEF Account
  <2> QED
    BY <1>5, <1>7, <2>1, <2>2, Zenon
<1>8. CASE Unlocks(s) \/ Waits(s) \/ Wakes(s) \/ AwaitsFuture(s) \/ finishGrpcStream(s)
  BY <1>7, <1>8 DEF Unlocks, Waits, Wakes, AwaitsFuture, finishGrpcStream, Ending
<1> QED
  BY <1>6, <1>8

\* A handler is started: the request that was owed by the thread is owed by the handler.
LEMMA LaunchAccounts ==
    ASSUME QInv, NEW s \in Streams, Launches(s)
    PROVE  /\ MailTyped' /\ \A t \in Streams : Accounted(t)'
           /\ RepliesFit' /\ BusyHeld'
<1> DEFINE new == [owner |-> s, step |-> "accept", reply |-> "none"]
<1>1. /\ MailTyped /\ DOMAIN rpc = Streams /\ jobs \in Seq(JobRecord)
      /\ \A t \in Streams : Accounted(t)
  BY DEF QInv, RInv, IInv, Typed
<1>2. /\ rpc[s] = "accept" /\ rpc' = [rpc EXCEPT ![s] = "assign"]
      /\ jobs' = Append(jobs, new)
      /\ UNCHANGED <<client, inbox, sent, outbox, request, status, busy_lock_, shared>>
  BY DEF Launches, endVars
<1>3. new \in JobRecord
  BY DEF JobRecord, Steps
<1>4. /\ Latest' = Latest + 1 /\ Latest \in Nat /\ jobs'[Latest + 1] = new
      /\ \A j \in 1..Latest : jobs'[j] = jobs[j]
  BY <1>1, <1>2, <1>3 DEF Latest
<1>5. new.owner = s /\ new.step = "accept"
  OBVIOUS
<1> HIDE DEF new
<1>6. rpc'[s] = "assign" /\ \A t \in Streams \ {s} : rpc'[t] = rpc[t]
  BY <1>1, <1>2
<1>7. ASSUME NEW t, NEW steps
      PROVE  HasJob(t, steps)' <=> HasJob(t, steps) \/ (t = s /\ "accept" \in steps)
  <2>1. (\E j \in 1..(Latest + 1) : jobs'[j].owner = t /\ jobs'[j].step \in steps) <=>
            \/ \E j \in 1..Latest : jobs[j].owner = t /\ jobs[j].step \in steps
            \/ s = t /\ "accept" \in steps
    <3>1. \A j \in 1..(Latest + 1) : j \in 1..Latest \/ j = Latest + 1
      BY <1>4
    <3>2. \A j \in 1..Latest : j \in 1..(Latest + 1)
      BY <1>4
    <3>3. Latest + 1 \in 1..(Latest + 1)
      BY <1>4
    <3> QED
      BY <1>4, <1>5, <3>1, <3>2, <3>3
  <2> QED
    BY <1>4, <2>1 DEF HasJob
<1>8. s \notin shared => ~HasJob(s, Unanswered)
  <2> SUFFICES ASSUME s \notin shared, NEW j \in 1..Latest, jobs[j].step \in Unanswered PROVE FALSE
    BY DEF HasJob
  <2>1. IInv /\ s \in Alone /\ ~Assigning
    BY FreeOfAssigning DEF QInv, RInv, Alone, Launches
  <2>2. jobs[j].step \notin {"done", "reply"}
    BY DEF Unanswered
  <2>3. j = Latest
    BY <2>1, <2>2, NotDone
  <2>4. jobs[Latest].step \in {"reply", "done"}
    BY <1>2, <1>4, <2>1, <2>3 DEF QInv, RInv, InStep, Fits
  <2> QED
    BY <2>2, <2>3, <2>4
<1>9. HasJob(s, Unanswered)' /\ (HasJob(s, {"reply"})' <=> HasJob(s, {"reply"}))
  BY <1>7 DEF Unanswered
<1>10. s \notin shared => Owed(s)' = Owed(s)
  BY <1>2, <1>6, <1>8, <1>9 DEF Owed
<1>11. \A t \in Streams : HasJob(t, {"unlock"})' = HasJob(t, {"unlock"})
  <2>1. \A t \in Streams : HasJob(t, {"unlock"})' <=> HasJob(t, {"unlock"})
    BY <1>7
  <2> QED
    BY <2>1 DEF HasJob
<1>12. ASSUME NEW t \in Streams \ {s} PROVE Owed(t)' = Owed(t)
  <2>1. /\ HasJob(t, Unanswered)' <=> HasJob(t, Unanswered)
        /\ HasJob(t, {"reply"})' <=> HasJob(t, {"reply"})
    BY <1>7, <1>12
  <2> QED
    BY <1>6, <2>1 DEF Owed
<1>13. MailTyped'
  BY <1>1, <1>2 DEF MailTyped
<1>14. ASSUME NEW t \in Streams \ {s} PROVE Accounted(t)'
  BY <1>1, <1>2, <1>6, <1>11, <1>12, AccountKept
<1>15. Accounted(s)'
  <2>1. ASSUME s \notin shared
        PROVE  Account(client[s], inbox[s], sent[s], outbox[s], request[s], status[s], rpc[s],
                       Owed(s), HasJob(s, {"unlock"}))
    BY <1>1, <2>1, Zenon DEF Accounted
  <2>2. ASSUME s \notin shared
        PROVE  Account(client[s], inbox[s], sent[s], outbox[s], request[s], status[s], "assign",
                       Owed(s), HasJob(s, {"unlock"}))
    BY <1>2, <2>1, <2>2, Zenon DEF Account, Ending
  <2> QED
    BY <1>2, <1>6, <1>10, <1>11, <2>2, Zenon DEF Accounted
<1>16. RepliesFit'
  <2>1. ASSUME NEW j \in 1..(Latest + 1)
        PROVE  /\ jobs'[j].step \in {"replyLocked", "unlock"} => jobs'[j].reply = "invalid"
               /\ jobs'[j].step \in {"release", "reply"} => jobs'[j].reply \in {"output", "failed"}
    <3>1. CASE j = Latest + 1
      BY <1>4, <1>5, <3>1
    <3>2. CASE j # Latest + 1
      <4>1. j \in 1..Latest
        BY <1>4, <3>2
      <4> QED
        BY <1>4, <4>1 DEF QInv, RepliesFit
    <3> QED
      BY <3>1, <3>2
  <2> QED
    BY <1>4, <2>1 DEF RepliesFit
<1>17. BusyHeld'
  <2>1. ASSUME NEW t \in Streams, rpc[t] = "probed" PROVE rpc'[t] = "probed"
    BY <1>2, <1>6, <2>1
  <2>2. ASSUME NEW j \in 1..Latest, jobs[j].step \in Locked
        PROVE  j \in 1..(Latest + 1) /\ jobs'[j].step \in Locked
    BY <1>4, <2>2
  <2> QED
    BY <1>2, <1>4, <2>1, <2>2, Zenon DEF QInv, BusyHeld
<1> QED
  BY <1>13, <1>14, <1>15, <1>16, <1>17

\* What a handler will answer, or has answered, does not change once it is known.
LEMMA StepKeepsReply ==
    ASSUME Typed, NEW j \in DOMAIN jobs, NEW from, NEW to, Step(j, from, to)
    PROVE  jobs'[j].reply = jobs[j].reply
<1>1. jobs' = [jobs EXCEPT ![j].step = to] /\ jobs[j] \in JobRecord
  BY JobFacts DEF Step
<1>2. jobs'[j] = [jobs[j] EXCEPT !.step = to]
  BY <1>1 DEF Typed
<1> QED
  BY <1>1, <1>2 DEF JobRecord

LEMMA EndsWithReply ==
    ASSUME Typed, NEW j \in DOMAIN jobs, NEW to, NEW reply, EndsWith(j, to, reply)
    PROVE  jobs'[j].reply = reply
<1>1. jobs[j] \in JobRecord
  BY JobFacts
<1>2. jobs'[j] = [[jobs[j] EXCEPT !.step = to] EXCEPT !.reply = reply]
  BY DEF Typed, EndsWith
<1> QED
  BY <1>1, <1>2 DEF JobRecord

\* A handler moves on with a reply that fits.
LEMMA RepliesStillFit ==
    ASSUME QInv, NEW j \in 1..Latest, NEW to, Moves(j, to),
           to \in {"replyLocked", "unlock"} => jobs'[j].reply = "invalid",
           to \in {"release", "reply"} => jobs'[j].reply \in {"output", "failed"}
    PROVE  RepliesFit'
<1>1. ASSUME NEW i \in 1..Latest
      PROVE  /\ jobs'[i].step \in {"replyLocked", "unlock"} => jobs'[i].reply = "invalid"
             /\ jobs'[i].step \in {"release", "reply"} => jobs'[i].reply \in {"output", "failed"}
  <2>1. CASE i = j
    BY <2>1 DEF Moves
  <2>2. CASE i # j
    BY <2>2 DEF Moves, QInv, RepliesFit
  <2> QED
    BY <2>1, <2>2
<1>2. Latest' = Latest
  BY DEF Moves
<1> QED
  BY <1>1, <1>2 DEF RepliesFit

\* The busy lock stays with whom it is needed by.
LEMMA BusyStillHeld ==
    ASSUME QInv, NEW j \in 1..Latest, NEW to, Moves(j, to),
           \/ to \in Locked
           \/ busy_lock_' = Nobody
           \/ jobs[j].step \notin Locked /\ UNCHANGED <<busy_lock_, rpc>>
    PROVE  BusyHeld'
<1>1. Latest' = Latest /\ jobs'[j].step = to /\ \A i \in 1..Latest \ {j} : jobs'[i] = jobs[i]
  BY DEF Moves
<1>2. CASE to \in Locked
  BY <1>1, <1>2 DEF BusyHeld
<1>3. CASE busy_lock_' = Nobody
  BY <1>3 DEF BusyHeld
<1>4. CASE jobs[j].step \notin Locked /\ UNCHANGED <<busy_lock_, rpc>>
  <2>1. ASSUME NEW i \in 1..Latest, jobs[i].step \in Locked PROVE jobs'[i].step \in Locked
    BY <1>1, <1>4, <2>1
  <2> QED
    BY <1>1, <1>4, <2>1 DEF QInv, BusyHeld
<1> QED
  BY <1>2, <1>3, <1>4

\* A handler moves on without answering: nothing more and nothing less is owed.
LEMMA WorkAccounts ==
    ASSUME QInv, NEW j \in 1..Latest, NEW to, Moves(j, to),
           \/ jobs[j].step \in Unanswered /\ to \in Unanswered
           \/ jobs[j].step = "release" /\ to = "reply"
           \/ jobs[j].step = "unlock" /\ to = "done",
           \A t \in Streams : rpc'[t] = rpc[t] \/ (rpc[t] = "waiting" /\ rpc'[t] = "woken"),
           UNCHANGED <<client, inbox, sent, outbox, request, status, shared>>
    PROVE  MailTyped' /\ \A t \in Streams : Accounted(t)'
<1>1. MailTyped /\ RInv /\ IInv /\ \A t \in Streams : Accounted(t)
  BY DEF QInv, RInv
<1>2. MailTyped'
  BY <1>1 DEF MailTyped
<1>3. ASSUME NEW t \in Streams, t \notin shared
      PROVE  /\ Owed(t)' = Owed(t)
             /\ HasJob(t, {"unlock"})' => HasJob(t, {"unlock"})
  <2>1. rpc'[t] \in {"probed", "accept"} <=> rpc[t] \in {"probed", "accept"}
    OBVIOUS
  <2>2. CASE jobs[j].step \in Unanswered /\ to \in Unanswered
    <3>1. /\ HasJob(t, Unanswered)' <=> HasJob(t, Unanswered)
          /\ HasJob(t, {"reply"})' <=> HasJob(t, {"reply"})
          /\ HasJob(t, {"unlock"})' <=> HasJob(t, {"unlock"})
      <4>1. HasJob(t, Unanswered)' <=> HasJob(t, Unanswered)
        BY <1>1, <2>2, HasJobMoves DEF Unanswered
      <4>2. HasJob(t, {"reply"})' <=> HasJob(t, {"reply"})
        BY <1>1, <2>2, HasJobMoves DEF Unanswered
      <4>3. HasJob(t, {"unlock"})' <=> HasJob(t, {"unlock"})
        BY <1>1, <2>2, HasJobMoves DEF Unanswered
      <4> QED
        BY <4>1, <4>2, <4>3
    <3> QED
      BY <2>1, <3>1 DEF Owed
  <2>0. CASE jobs[j].owner # t
    <3>1. /\ HasJob(t, Unanswered)' <=> HasJob(t, Unanswered)
          /\ HasJob(t, {"reply"})' <=> HasJob(t, {"reply"})
          /\ HasJob(t, {"unlock"})' <=> HasJob(t, {"unlock"})
      <4>1. HasJob(t, Unanswered)' <=> HasJob(t, Unanswered)
        BY <1>1, <2>0, HasJobMoves
      <4>2. HasJob(t, {"reply"})' <=> HasJob(t, {"reply"})
        BY <1>1, <2>0, HasJobMoves
      <4>3. HasJob(t, {"unlock"})' <=> HasJob(t, {"unlock"})
        BY <1>1, <2>0, HasJobMoves
      <4> QED
        BY <4>1, <4>2, <4>3
    <3> QED
      BY <2>1, <3>1 DEF Owed
  <2>3. CASE jobs[j].owner = t /\ jobs[j].step = "release" /\ to = "reply"
    <3>1. \A i \in 1..Latest \ {j} : jobs[i].step = "done"
      BY <1>1, <1>3, <2>3, AloneAtWork DEF Alone
    <3>2. /\ HasJob(t, Unanswered)' <=> FALSE
          /\ HasJob(t, Unanswered) <=> jobs[j].owner = t
          /\ HasJob(t, {"reply"})' <=> jobs[j].owner = t
          /\ HasJob(t, {"reply"}) <=> FALSE
          /\ HasJob(t, {"unlock"})' <=> FALSE
      <4>1. HasJob(t, Unanswered)' <=> FALSE
        BY <1>1, <2>3, <3>1, HasJobMoves DEF Unanswered
      <4>2. HasJob(t, Unanswered) <=> jobs[j].owner = t
        BY <1>1, <2>3, <3>1, HasJobMoves DEF Unanswered
      <4>3. HasJob(t, {"reply"})' <=> jobs[j].owner = t
        BY <1>1, <2>3, <3>1, HasJobMoves DEF Unanswered
      <4>4. HasJob(t, {"reply"}) <=> FALSE
        BY <1>1, <2>3, <3>1, HasJobMoves DEF Unanswered
      <4>5. HasJob(t, {"unlock"})' <=> FALSE
        BY <1>1, <2>3, <3>1, HasJobMoves DEF Unanswered
      <4> QED
        BY <4>1, <4>2, <4>3, <4>4, <4>5
    <3> QED
      BY <2>1, <3>2 DEF Owed
  <2>4. CASE jobs[j].owner = t /\ jobs[j].step = "unlock" /\ to = "done"
    <3>1. \A i \in 1..Latest \ {j} : jobs[i].step = "done"
      BY <1>1, <1>3, <2>4, AloneAtWork DEF Alone
    <3>2. /\ HasJob(t, Unanswered)' <=> HasJob(t, Unanswered)
          /\ HasJob(t, {"reply"})' <=> HasJob(t, {"reply"})
          /\ HasJob(t, {"unlock"})' <=> FALSE
      <4>1. HasJob(t, Unanswered)' <=> HasJob(t, Unanswered)
        BY <1>1, <2>4, <3>1, HasJobMoves DEF Unanswered
      <4>2. HasJob(t, {"reply"})' <=> HasJob(t, {"reply"})
        BY <1>1, <2>4, <3>1, HasJobMoves DEF Unanswered
      <4>3. HasJob(t, {"unlock"})' <=> FALSE
        BY <1>1, <2>4, <3>1, HasJobMoves DEF Unanswered
      <4> QED
        BY <4>1, <4>2, <4>3
    <3> QED
      BY <2>1, <3>2 DEF Owed
  <2> QED
    BY <2>0, <2>2, <2>3, <2>4
<1>4. ASSUME NEW t \in Streams PROVE Accounted(t)'
  <2> SUFFICES ASSUME t \notin shared PROVE Accounted(t)'
    BY DEF Accounted
  <2>1. Account(client[t], inbox[t], sent[t], outbox[t], request[t], status[t], rpc[t],
                Owed(t), HasJob(t, {"unlock"}))
    BY <1>1, Zenon DEF Accounted
  <2>2. rpc'[t] \in Ending <=> rpc[t] \in Ending
    BY DEF Ending
  <2>3. PICK leaving \in BOOLEAN : leaving = HasJob(t, {"unlock"})'
    BY Zenon DEF HasJob
  <2>4. PICK pos : pos = rpc'[t]
    OBVIOUS
  <2>5. Account(client[t], inbox[t], sent[t], outbox[t], request[t], status[t], pos,
                Owed(t), leaving)
    BY <1>3, <2>1, <2>2, <2>3, <2>4, Zenon DEF Account
  <2> QED
    BY <1>3, <2>3, <2>4, <2>5, Zenon DEF Accounted
<1> QED
  BY <1>2, <1>4

\* A handler that has an answer to write is the only one that has.
LEMMA OneAnswer ==
    ASSUME IInv, NEW j \in 1..Latest, jobs[j].step = "reply"
    PROVE  \A i \in 1..Latest \ {j} : jobs[i].step \in {"done", "accept"}
BY AtWorkIsFuture

\* A handler answers: one request less is owed, on the stream it was asked on.
LEMMA AnswerAccounts ==
    ASSUME QInv, NEW j \in DOMAIN jobs, Answers(j)
    PROVE  MailTyped' /\ \A t \in Streams : Accounted(t)'
<1>1. /\ MailTyped /\ RInv /\ IInv /\ Typed /\ j \in 1..Latest
      /\ \A t \in Streams : Accounted(t)
  BY JobFacts DEF QInv, RInv, IInv
<1>2. /\ UNCHANGED <<client, inbox, sent, rpc, request, status, shared>>
      /\ stream_ # 0 /\ writeResponse(jobs[j].reply)
  BY DEF Answers, endVars
<1>3. PICK to : /\ Moves(j, to)
                /\ \/ jobs[j].step = "reply" /\ to = "done"
                   \/ jobs[j].step = "replyLocked" /\ to = "unlock"
  BY <1>1, StepMoves DEF Answers, Steps
<1>4. PICK s \in Streams : s = jobs[j].owner
  BY <1>1, JobFacts DEF JobRecord
<1>5. \A t \in Streams : t \notin shared => (stream_ = t <=> t = s)
  <2>1. Open(s)
    BY <1>1, <1>3, <1>4 DEF IInv, OwnersOpen
  <2> QED
    BY <1>1, <2>1 DEF RInv, SoleOpen, Alone
<1>6. PICK reply \in Replies : /\ reply = jobs[j].reply
                               /\ jobs[j].step = "replyLocked" => reply = "invalid"
  BY <1>1, <1>3 DEF QInv, RepliesFit, Replies
<1>7. /\ \A t \in Streams \ {s} : t \notin shared => outbox'[t] = outbox[t]
      /\ s \notin shared =>
             outbox'[s] = IF client[s] # "gone" THEN Append(outbox[s], reply) ELSE outbox[s]
      /\ outbox' \in [Streams -> Seq(Replies)]
  <2>1. outbox \in [Streams -> Seq(Replies)]
    BY <1>1 DEF MailTyped
  <2>2. /\ outbox' = IF client[stream_] # "gone"
                     THEN [outbox EXCEPT ![stream_] = Append(outbox[stream_], reply)] ELSE outbox
    BY <1>2, <1>6 DEF writeResponse
  <2>3. \A t \in Streams : Append(outbox[t], reply) \in Seq(Replies)
    BY <2>1
  <2>4. outbox' \in [Streams -> Seq(Replies)]
    BY <2>1, <2>2, <2>3
  <2>5. \A t \in Streams \ {s} : t \notin shared => outbox'[t] = outbox[t]
    BY <1>5, <2>1, <2>2
  <2>6. s \notin shared =>
            outbox'[s] = IF client[s] # "gone" THEN Append(outbox[s], reply) ELSE outbox[s]
    BY <1>5, <2>1, <2>2
  <2> QED
    BY <2>4, <2>5, <2>6
<1>8. MailTyped'
  BY <1>1, <1>2, <1>7 DEF MailTyped
<1>9. ASSUME NEW t \in Streams \ {s} PROVE Accounted(t)'
  <2> SUFFICES ASSUME t \notin shared PROVE Accounted(t)'
    BY <1>2 DEF Accounted
  <2>1. /\ HasJob(t, Unanswered)' <=> HasJob(t, Unanswered)
        /\ HasJob(t, {"reply"})' <=> HasJob(t, {"reply"})
        /\ HasJob(t, {"unlock"})' <=> HasJob(t, {"unlock"})
    <3>1. HasJob(t, Unanswered)' <=> HasJob(t, Unanswered)
      BY <1>1, <1>3, <1>4, <1>9, HasJobMoves
    <3>2. HasJob(t, {"reply"})' <=> HasJob(t, {"reply"})
      BY <1>1, <1>3, <1>4, <1>9, HasJobMoves
    <3>3. HasJob(t, {"unlock"})' <=> HasJob(t, {"unlock"})
      BY <1>1, <1>3, <1>4, <1>9, HasJobMoves
    <3> QED
      BY <3>1, <3>2, <3>3
  <2>2. Owed(t)' = Owed(t)
    BY <1>2, <2>1 DEF Owed
  <2>3. HasJob(t, {"unlock"})' = HasJob(t, {"unlock"})
    BY <2>1 DEF HasJob
  <2> QED
    BY <1>1, <1>2, <1>7, <2>2, <2>3, AccountKept
<1>10. ASSUME s \notin shared PROVE Accounted(s)'
  <2>10. PICK owed \in Nat : Owed(s)' = owed /\ Owed(s) = owed + 1
    <3>1. CASE jobs[j].step = "reply" /\ to = "done"
      <4>1. \A i \in 1..Latest \ {j} : jobs[i].step \in {"done", "accept"}
        BY <1>1, <3>1, OneAnswer
      <4>2. /\ HasJob(s, Unanswered)' <=> HasJob(s, Unanswered)
            /\ HasJob(s, {"reply"}) <=> TRUE
            /\ HasJob(s, {"reply"})' <=> FALSE
        <5>1. HasJob(s, Unanswered)' <=> HasJob(s, Unanswered)
          BY <1>1, <1>3, <1>4, <3>1, <4>1, HasJobMoves DEF Unanswered
        <5>2. HasJob(s, {"reply"}) <=> TRUE
          BY <1>1, <1>3, <1>4, <3>1, <4>1, HasJobMoves DEF Unanswered
        <5>3. HasJob(s, {"reply"})' <=> FALSE
          BY <1>1, <1>3, <1>4, <3>1, <4>1, HasJobMoves DEF Unanswered
        <5> QED
          BY <5>1, <5>2, <5>3
      <4> QED
        BY <1>2, <4>2 DEF Owed
    <3>2. CASE jobs[j].step = "replyLocked" /\ to = "unlock"
      <4>1. \A i \in 1..Latest \ {j} : jobs[i].step = "done"
        BY <1>1, <1>4, <1>10, <3>2, AloneAtWork DEF Alone
      <4>2. /\ HasJob(s, Unanswered) <=> TRUE
            /\ HasJob(s, Unanswered)' <=> FALSE
            /\ HasJob(s, {"reply"})' <=> HasJob(s, {"reply"})
        <5>1. HasJob(s, Unanswered) <=> TRUE
          BY <1>1, <1>3, <1>4, <3>2, <4>1, HasJobMoves DEF Unanswered
        <5>2. HasJob(s, Unanswered)' <=> FALSE
          BY <1>1, <1>3, <1>4, <3>2, <4>1, HasJobMoves DEF Unanswered
        <5>3. HasJob(s, {"reply"})' <=> HasJob(s, {"reply"})
          BY <1>1, <1>3, <1>4, <3>2, <4>1, HasJobMoves DEF Unanswered
        <5> QED
          BY <5>1, <5>2, <5>3
      <4> QED
        BY <1>2, <4>2 DEF Owed
    <3> QED
      BY <1>3, <3>1, <3>2
  <2>11. PICK leaving \in BOOLEAN : /\ leaving = HasJob(s, {"unlock"})'
                                    /\ leaving => reply = "invalid"
    <3>1. CASE jobs[j].step = "replyLocked"
      BY <1>6, <3>1, Zenon DEF HasJob
    <3>2. CASE jobs[j].step = "reply" /\ to = "done"
      <4>1. \A i \in 1..Latest \ {j} : jobs[i].step \in {"done", "accept"}
        BY <1>1, <3>2, OneAnswer
      <4>2. HasJob(s, {"unlock"})' <=> FALSE
        BY <1>1, <1>3, <1>4, <3>2, <4>1, HasJobMoves
      <4>3. HasJob(s, {"unlock"})' = FALSE
        BY <4>2 DEF HasJob
      <4> QED
        BY <4>3, Zenon
    <3> QED
      BY <1>3, <3>1, <3>2
  <2>12. PICK before \in BOOLEAN : before = HasJob(s, {"unlock"})
    BY Zenon DEF HasJob
  <2>13. Account(client[s], inbox[s], sent[s], outbox[s], request[s], status[s], rpc[s],
                 owed + 1, before)
    BY <1>1, <1>10, <2>10, <2>12, Zenon DEF Accounted
  <2>14. PICK next : next = outbox'[s] /\ next = Delivered(client[s], outbox[s], reply)
    BY <1>7, <1>10 DEF Delivered
  <2>15. Account(client[s], inbox[s], sent[s], next, request[s], status[s], rpc[s],
                 owed, leaving)
    <3>1. inbox[s] \in Seq(Requests) /\ sent[s] \in Nat /\ outbox[s] \in Seq(Replies)
      BY <1>1, MailFacts
    <3>2. leaving => reply = "invalid"
      BY <2>11
    <3> QED
      BY <2>13, <2>14, <3>1, <3>2, AccountAnswers, Zenon
  <2>16. Accounted(s)'
    BY <1>2, <2>10, <2>11, <2>14, <2>15, Zenon DEF Accounted
  <2> QED
    BY <2>16
<1>11. Accounted(s)'
  BY <1>2, <1>10 DEF Accounted
<1> QED
  BY <1>8, <1>9, <1>11

\* The streams' threads and the clients leave the handlers alone.
LEMMA OthersKeepJobs ==
    ASSUME QInv, jobs' = jobs,
           \/ busy_lock_' = Nobody
           \/ busy_lock_' = busy_lock_ /\ \A t \in Streams : rpc[t] = "probed" => rpc'[t] = "probed"
           \/ \E t \in Streams : rpc'[t] = "probed"
    PROVE  RepliesFit' /\ BusyHeld'
<1>1. Latest' = Latest
  BY DEF Latest
<1>2. RepliesFit'
  BY <1>1 DEF QInv, RepliesFit
<1>3. BusyHeld'
  BY <1>1 DEF QInv, BusyHeld
<1> QED
  BY <1>2, <1>3

\* A step of the client or of the stream's thread that keeps to its stream.
LEMMA StillGoneWasOpen ==
    ASSUME QInv, \A t \in Streams : rpc'[t] = "unopened" => rpc[t] = "unopened",
           \A t \in Streams : rpc'[t] = "unopened" => client'[t] = client[t]
    PROVE  GoneWasOpen'
BY DEF QInv, GoneWasOpen

\* Nothing that the accounts are about changes.
LEMMA NothingAccounts ==
    ASSUME QInv,
           UNCHANGED <<client, inbox, sent, outbox, rpc, request, status, jobs, busy_lock_, shared>>
    PROVE  /\ MailTyped' /\ RepliesFit' /\ BusyHeld' /\ GoneWasOpen'
           /\ \A t \in Streams : Accounted(t)'
<1>1. \A t \in Streams : Owed(t)' = Owed(t) /\ HasJob(t, {"unlock"})' = HasJob(t, {"unlock"})
  BY SameJobs
<1>2. ASSUME NEW t \in Streams PROVE Accounted(t)'
  BY <1>1, AccountKept DEF QInv
<1>3. MailTyped'
  BY DEF QInv, MailTyped
<1>4. RepliesFit' /\ BusyHeld'
  BY OthersKeepJobs
<1>5. GoneWasOpen'
  BY StillGoneWasOpen
<1> QED
  BY <1>2, <1>3, <1>4, <1>5

LEMMA ServerQInv ==
    ASSUME QInv, NEW s \in Streams, ServerStep(s)
    PROVE  /\ MailTyped' /\ RepliesFit' /\ BusyHeld' /\ GoneWasOpen'
           /\ \A t \in Streams : Accounted(t)'
<1>1. DOMAIN rpc = Streams /\ IInv
  BY DEF QInv, RInv, IInv, Typed
<1>2. MailTyped' /\ \A t \in Streams : Accounted(t)'
  BY ReadsAccounts, ThreadAccounts, LaunchAccounts DEF ServerStep
<1>3. PICK x : rpc' = [rpc EXCEPT ![s] = x] /\ x # "unopened" /\ client' = client
  BY Zenon DEF ServerStep, ReadsStart, ReadsOther, ReadsEnd, Unlocks, Launches, Waits, Wakes,
         AwaitsFuture, finishGrpcStream, Finishing
<1>4. GoneWasOpen'
  BY <1>1, <1>3, StillGoneWasOpen
<1>5. CASE ReadsStart(s)
  <2>1. /\ rpc[s] = "read" /\ jobs' = jobs
        /\ \/ rpc' = [rpc EXCEPT ![s] = "probed"]
           \/ busy_lock_' = busy_lock_
    BY <1>5 DEF ReadsStart
  <2>2. \/ rpc'[s] = "probed"
        \/ busy_lock_' = busy_lock_ /\ \A t \in Streams : rpc[t] = "probed" => rpc'[t] = "probed"
    BY <1>1, <1>3, <2>1
  <2>3. RepliesFit' /\ BusyHeld'
    BY <2>1, <2>2, OthersKeepJobs
  <2> QED
    BY <1>2, <1>4, <2>3
<1>6. CASE \/ ReadsOther(s) \/ ReadsEnd(s) \/ Waits(s) \/ Wakes(s)
           \/ AwaitsFuture(s) \/ finishGrpcStream(s)
  <2>1. rpc[s] # "probed" /\ jobs' = jobs /\ busy_lock_' = busy_lock_
    BY <1>6 DEF ReadsOther, ReadsEnd, Waits, Wakes, AwaitsFuture, finishGrpcStream
  <2>2. \A t \in Streams : rpc[t] = "probed" => rpc'[t] = "probed"
    BY <1>1, <1>3, <2>1
  <2>3. RepliesFit' /\ BusyHeld'
    BY <2>1, <2>2, OthersKeepJobs
  <2> QED
    BY <1>2, <1>4, <2>3
<1>7. CASE Unlocks(s)
  <2>1. jobs' = jobs /\ busy_lock_' = Nobody
    BY <1>7 DEF Unlocks
  <2>2. RepliesFit' /\ BusyHeld'
    BY <2>1, OthersKeepJobs
  <2> QED
    BY <1>2, <1>4, <2>2
<1>8. CASE Launches(s)
  BY <1>2, <1>4, <1>8, LaunchAccounts
<1> QED
  BY <1>5, <1>6, <1>7, <1>8 DEF ServerStep

LEMMA JobQInv ==
    ASSUME QInv, NEW j \in DOMAIN jobs, JobStep(j)
    PROVE  /\ MailTyped' /\ RepliesFit' /\ BusyHeld' /\ GoneWasOpen'
           /\ \A t \in Streams : Accounted(t)'
<1> USE DEF Steps
<1>1. DOMAIN rpc = Streams /\ IInv /\ Typed /\ j \in 1..Latest
  BY JobFacts DEF QInv, RInv, IInv, Typed
<1>2. /\ \A t \in Streams : rpc'[t] = rpc[t] \/ (rpc[t] = "waiting" /\ rpc'[t] = "woken")
      /\ UNCHANGED <<client, inbox, sent, request, status, shared>>
  <2>1. /\ rpc' = rpc \/ notifyOne
        /\ UNCHANGED <<client, inbox, sent, request, status, shared>>
    BY DEF JobStep, TakesAcceptedLock, TakesBusyLock, CreateFails, Runs, Releases, Answers,
           WritesThroughNull, Leaves, endVars
  <2> QED
    BY <1>1, <2>1, NotifiesOne DEF Notified
<1>3. GoneWasOpen'
  BY <1>2, StillGoneWasOpen
<1>4. CASE TakesAcceptedLock(j)
  <2>1. Step(j, "accept", "lock") /\ UNCHANGED <<rpc, outbox, busy_lock_>>
    BY <1>4 DEF TakesAcceptedLock
  <2>2. jobs[j].step = "accept" /\ Moves(j, "lock")
    BY <1>1, <2>1, StepMoves
  <2>3. MailTyped' /\ \A t \in Streams : Accounted(t)'
    BY <1>1, <1>2, <2>1, <2>2, WorkAccounts, Zenon DEF Unanswered
  <2>4. RepliesFit'
    BY <1>1, <2>2, RepliesStillFit
  <2>5. BusyHeld'
    BY <1>1, <2>1, <2>2, BusyStillHeld DEF Locked
  <2> QED
    BY <1>3, <2>3, <2>4, <2>5
<1>5. CASE TakesBusyLock(j)
  <2>1. Step(j, "lock", "create") /\ UNCHANGED outbox
    BY <1>5 DEF TakesBusyLock
  <2>2. jobs[j].step = "lock" /\ Moves(j, "create")
    BY <1>1, <2>1, StepMoves
  <2>3. MailTyped' /\ \A t \in Streams : Accounted(t)'
    BY <1>1, <1>2, <2>1, <2>2, WorkAccounts DEF Unanswered
  <2>4. RepliesFit'
    BY <1>1, <2>2, RepliesStillFit
  <2>5. BusyHeld'
    BY <1>1, <2>2, BusyStillHeld DEF Locked
  <2> QED
    BY <1>3, <2>3, <2>4, <2>5
<1>6. ASSUME NEW to \in {"replyLocked", "release"}, NEW reply \in Replies, EndsWith(j, to, reply),
             to = "replyLocked" => reply = "invalid",
             to = "release" => reply \in {"output", "failed"},
             jobs[j].step = "create", UNCHANGED outbox
      PROVE  /\ MailTyped' /\ RepliesFit' /\ BusyHeld'
             /\ \A t \in Streams : Accounted(t)'
  <2>1. Moves(j, to) /\ jobs'[j].reply = reply
    BY <1>1, <1>6, ReplyMoves, EndsWithReply
  <2>2. MailTyped' /\ \A t \in Streams : Accounted(t)'
    BY <1>1, <1>2, <1>6, <2>1, WorkAccounts DEF Unanswered
  <2>3. RepliesFit'
    BY <1>1, <1>6, <2>1, RepliesStillFit
  <2>4. BusyHeld'
    BY <1>1, <1>6, <2>1, BusyStillHeld DEF Locked
  <2> QED
    BY <2>2, <2>3, <2>4
<1>7. CASE CreateFails(j) \/ Runs(j, "output") \/ Runs(j, "failed")
  <2>1. /\ jobs[j].step = "create" /\ UNCHANGED outbox
        /\ \/ EndsWith(j, "replyLocked", "invalid")
           \/ EndsWith(j, "release", "output")
           \/ EndsWith(j, "release", "failed")
    BY <1>7 DEF CreateFails, Runs, EndsWith
  <2>2. {"invalid", "output", "failed"} \subseteq Replies
    BY DEF Replies
  <2> QED
    BY <1>3, <1>6, <2>1, <2>2
<1>8. CASE Releases(j)
  <2>1. Step(j, "release", "reply") /\ UNCHANGED outbox /\ busy_lock_' = Nobody
    BY <1>8 DEF Releases
  <2>2. jobs[j].step = "release" /\ Moves(j, "reply") /\ jobs'[j].reply = jobs[j].reply
    BY <1>1, <2>1, StepMoves, StepKeepsReply
  <2>3. MailTyped' /\ \A t \in Streams : Accounted(t)'
    BY <1>1, <1>2, <2>1, <2>2, WorkAccounts
  <2>4. RepliesFit'
    BY <1>1, <2>2, RepliesStillFit DEF QInv, RepliesFit
  <2>5. BusyHeld'
    BY <1>1, <2>1, <2>2, BusyStillHeld
  <2> QED
    BY <1>3, <2>3, <2>4, <2>5
<1>9. CASE Answers(j)
  <2>1. UNCHANGED <<rpc, busy_lock_>>
    BY <1>9 DEF Answers
  <2>2. PICK to : /\ Moves(j, to) /\ jobs'[j].reply = jobs[j].reply
                  /\ \/ jobs[j].step = "reply" /\ to = "done"
                     \/ jobs[j].step = "replyLocked" /\ to = "unlock"
    BY <1>1, <1>9, StepMoves, StepKeepsReply, Zenon DEF Answers
  <2>3. MailTyped' /\ \A t \in Streams : Accounted(t)'
    BY <1>9, AnswerAccounts
  <2>4. RepliesFit'
    BY <1>1, <2>2, RepliesStillFit DEF QInv, RepliesFit
  <2>5. BusyHeld'
    BY <1>1, <2>1, <2>2, BusyStillHeld DEF Locked
  <2> QED
    BY <1>3, <2>3, <2>4, <2>5
<1>10. CASE Leaves(j)
  <2>1. Step(j, "unlock", "done") /\ UNCHANGED outbox /\ busy_lock_' = Nobody
    BY <1>10 DEF Leaves
  <2>2. jobs[j].step = "unlock" /\ Moves(j, "done")
    BY <1>1, <2>1, StepMoves
  <2>3. MailTyped' /\ \A t \in Streams : Accounted(t)'
    BY <1>1, <1>2, <2>1, <2>2, WorkAccounts
  <2>4. RepliesFit'
    BY <1>1, <2>2, RepliesStillFit
  <2>5. BusyHeld'
    BY <1>1, <2>1, <2>2, BusyStillHeld
  <2> QED
    BY <1>3, <2>3, <2>4, <2>5
<1>11. CASE WritesThroughNull(j)
  <2>1. UNCHANGED <<client, inbox, sent, outbox, rpc, request, status, jobs, busy_lock_, shared>>
    BY <1>11 DEF WritesThroughNull
  <2> QED
    BY <2>1, NothingAccounts
<1> QED
  BY <1>4, <1>5, <1>7, <1>8, <1>9, <1>10, <1>11 DEF JobStep

LEMMA NextQInv == ASSUME QInv, [Next]_vars PROVE QInv'
<1>1. RInv'
  BY NextRInv DEF QInv
<1>2. DOMAIN rpc = Streams /\ DOMAIN client = Streams
  BY DEF QInv, RInv, IInv, Typed, MailTyped
<1>3. ASSUME NEW s \in Streams, ClientOpens(s) PROVE QInv'
  <2>1. MailTyped' /\ \A t \in Streams : Accounted(t)'
    BY <1>3, OpensAccounts
  <2>2. /\ rpc[s] = "unopened" /\ rpc' = [rpc EXCEPT ![s] = "read"]
        /\ client' = [client EXCEPT ![s] = "writing"]
        /\ UNCHANGED <<jobs, busy_lock_>>
    BY <1>3 DEF ClientOpens
  <2>3. /\ \A t \in Streams : rpc[t] = "probed" => rpc'[t] = "probed"
        /\ \A t \in Streams : rpc'[t] = "unopened" => rpc[t] = "unopened" /\ client'[t] = client[t]
    BY <1>2, <2>2
  <2> QED
    BY <1>1, <2>1, <2>2, <2>3, OthersKeepJobs, StillGoneWasOpen DEF QInv
<1>4. ASSUME NEW s \in Streams, NEW kind \in {"start", "other"},
             ClientWritesDone(s) \/ ClientBreaks(s) \/ ClientWrites(s, kind)
      PROVE  QInv'
  <2>1. MailTyped' /\ \A t \in Streams : Accounted(t)'
    BY <1>4, ClientAccounts
  <2>2. /\ UNCHANGED <<jobs, busy_lock_, rpc>> /\ client[s] # "absent"
        /\ \A t \in Streams \ {s} : client'[t] = client[t]
    BY <1>2, <1>4 DEF ClientWritesDone, ClientBreaks, ClientWrites
  <2>3. rpc[s] # "unopened"
    BY <2>2 DEF QInv, GoneWasOpen
  <2>4. \A t \in Streams : rpc'[t] = "unopened" => rpc[t] = "unopened" /\ client'[t] = client[t]
    BY <2>2, <2>3
  <2> QED
    BY <1>1, <2>1, <2>2, <2>4, OthersKeepJobs, StillGoneWasOpen DEF QInv
<1>5. CASE UNCHANGED vars
  <2>1. UNCHANGED <<client, inbox, sent, outbox, rpc, request, status, jobs, busy_lock_, shared>>
    BY <1>5 DEF vars, endVars
  <2> QED
    BY <1>1, <2>1, NothingAccounts DEF QInv
<1>6. ASSUME NEW s \in Streams, ServerStep(s) PROVE QInv'
  BY <1>1, <1>6, ServerQInv DEF QInv
<1>7. ASSUME NEW j \in DOMAIN jobs, JobStep(j) PROVE QInv'
  BY <1>1, <1>7, JobQInv DEF QInv
<1> QED
  BY <1>3, <1>4, <1>5, <1>6, <1>7 DEF Next

LEMMA InitQInv == Init => QInv
<1> SUFFICES ASSUME Init PROVE QInv
  OBVIOUS
<1>1. /\ jobs = <<>> /\ rpc = [s \in Streams |-> "unopened"] /\ busy_lock_ = Nobody
      /\ client = [s \in Streams |-> "absent"] /\ inbox = [s \in Streams |-> <<>>]
      /\ sent = [s \in Streams |-> 0] /\ outbox = [s \in Streams |-> <<>>]
      /\ request = [s \in Streams |-> NoRequest] /\ status = [s \in Streams |-> "none"]
  BY DEF Init
<1>2. Latest = 0
  BY <1>1 DEF Latest
<1>3. MailTyped
  BY <1>1 DEF MailTyped, Verdicts
<1>4. RepliesFit /\ BusyHeld /\ GoneWasOpen
  BY <1>1, <1>2 DEF RepliesFit, BusyHeld, GoneWasOpen
<1>5. ASSUME NEW s \in Streams PROVE Accounted(s)
  <2>1. \A steps : HasJob(s, steps) = FALSE
    BY <1>2 DEF HasJob
  <2>2. Owed(s) = 0
    BY <1>1, <2>1 DEF Owed
  <2>3. NoRequest.kind = "none" /\ NoRequest.after = "nothing" /\ Len(<<>>) = 0
    BY DEF NoRequest
  <2>4. Account("absent", <<>>, 0, <<>>, NoRequest, "none", "unopened", 0, FALSE)
    BY <2>3 DEF Account, Ending
  <2> QED
    BY <1>1, <2>1, <2>2, <2>4, Zenon DEF Accounted
<1> QED
  BY <1>3, <1>4, <1>5, InitRInv DEF QInv

\* While no other stream is open, the busy lock never turns away a client that waited for its
\* results before it asked for the next benchmark: handleExecutionRequest() releases it
\* before it writes the reply.
THEOREM FollowUpsAreAccepted == Spec => []NeverDeclinesFollowUp
<1>1. QInv /\ [Next]_vars => QInv'
  BY NextQInv
<1>2. QInv => NeverDeclinesFollowUp
  BY Zenon DEF QInv, Accounted, Account, NeverDeclinesFollowUp, Calm
<1> QED
  BY <1>1, <1>2, InitQInv, PTL DEF Spec

LEMMA FirstOfOne == \A S : \A q \in Seq(S) : Len(q) = 1 => q # <<>> /\ q[1] \in S
OBVIOUS

LEMMA OnlyOne == \A a, b \in Nat : a + b + 0 + 0 = 1 /\ b + 1 <= 1 => a = 1
OBVIOUS

\* While no other stream is open, whatever streams before it did, PerformNighthawkBenchmark()
\* gets the one answer it waits for, for every interleaving of the stream's thread and the
\* handler: neither none nor two, and a status that is OK.
THEOREM OneShotGetsItsAnswer == Spec => []OneShotIsAnswered
<1>1. QInv /\ [Next]_vars => QInv'
  BY NextQInv
<1>2. ASSUME QInv, NEW s \in Streams, s \notin shared, OneShot(s)
      PROVE  PerformNighthawkBenchmark(s) \in Replies
  <2>1. /\ client[s] = "halfclosed" /\ sent[s] = 1 /\ request[s].kind = "start"
        /\ rpc[s] = "done"
    BY <1>2 DEF OneShot
  <2>2. inbox[s] \in Seq(Requests) /\ outbox[s] \in Seq(Replies) /\ status[s] \in Verdicts
    BY <1>2, MailFacts DEF QInv
  <2>3. \A j \in 1..Latest : jobs[j].owner = s => jobs[j].step = "done"
    BY <1>2, <2>1 DEF QInv, RInv, IInv, OwnersOpen, Open
  <2>4. Owed(s) = 0
    BY <2>1, <2>3 DEF Owed, HasJob, Unanswered
  <2>5. Account("halfclosed", inbox[s], 1, outbox[s], request[s], status[s], "done", 0,
                HasJob(s, {"unlock"}))
    BY <1>2, <2>1, <2>4, Zenon DEF QInv, Accounted
  <2>6. status[s] = "ok"
    BY <2>1, <2>2, <2>5 DEF Account, Verdicts, Calm, Ending
  <2>7. PICK out \in Nat, in \in Nat : out = Len(outbox[s]) /\ in = Len(inbox[s])
    BY <2>2
  <2>8. Len(outbox[s]) = 1
    <3>1. out + in + 0 + 0 = 1
      BY <2>5, <2>6, <2>7, Zenon DEF Account
    <3>2. in + 1 <= 1
      BY <2>1, <2>5, <2>7 DEF Account
    <3> QED
      BY <2>7, <3>1, <3>2, OnlyOne, Zenon
  <2>9. outbox[s] # <<>> /\ outbox[s][1] \in Replies
    BY <2>2, <2>8, FirstOfOne, Zenon
  <2> QED
    BY <2>6, <2>8, <2>9 DEF PerformNighthawkBenchmark
<1>3. QInv => OneShotIsAnswered
  BY <1>2 DEF OneShotIsAnswered
<1> QED
  BY <1>1, <1>3, InitQInv, PTL DEF Spec
=============================================================================
