------------------------ MODULE DistributedTestProofs -----------------------
(***************************************************************************)
(* Proofs about DistributedTest, for every set of testers, whatever        *)
(* services they name and however many responses a service has.            *)
(***************************************************************************)
EXTENDS DistributedTest, TLAPS

\* One more piece of a tester is stored.
LEMMA OneMoreStored ==
    ASSUME NEW T, NEW R, NEW p \in [T -> [stored : Nat, report : R]], NEW t \in T,
           NEW q, q = [p EXCEPT ![t].stored = @ + 1]
    PROVE  /\ q \in [T -> [stored : Nat, report : R]]
           /\ \A u \in T \ {t} : q[u] = p[u]
           /\ q[t].stored = p[t].stored + 1
           /\ q[t].report = p[t].report
<1>1. PICK r : r = [p[t] EXCEPT !.stored = @ + 1]
  OBVIOUS
<1>2. p[t] \in [stored : Nat, report : R]
  OBVIOUS
<1>3. /\ r \in [stored : Nat, report : R]
      /\ r.stored = p[t].stored + 1 /\ r.report = p[t].report
  BY <1>1, <1>2
<1>4. q = [p EXCEPT ![t] = r]
  BY <1>1
<1> QED
  BY <1>3, <1>4

-----------------------------------------------------------------------------
(* A distributed test: what is known of sessions, calls and stored pieces. *)

\* The distributor answered the tester, with a response of each service.
Answered(t) == session[t].pc = "done" /\ session[t].status = "ok"

\* The pieces a tester has to store, and all those of an execution so far.
Pieces(t) == {Piece(t, i) : i \in DOMAIN Services[t]}
Genuine(id) == UNION {Pieces(t) : t \in {u \in Testers : Answered(u) /\ execution_id[u] = id}}

\* A file with a piece; it may be incomplete only where a write can fail unnoticed.
File(p, w) == [piece |-> p, whole |-> w]
Wholeness == IF LateWriteErrors THEN BOOLEAN ELSE {TRUE}
Files(P, W) == {File(p, w) : p \in P, w \in W}
InFile(p, F) == \E w \in Wholeness : File(p, w) \in F

\* Whatever a service may contribute to a tester's reply.
Entries(t) == [service : Named(t),
               response : {NoResponse} \union UNION {Responses(s, t) : s \in Named(t)}]

\* How the stream of a tester with the distributor stands.
Running(t) ==
    /\ session[t] \in [pc : {"running"}, reply : Seq(Entries(t)), has_errors : BOOLEAN]
    /\ Len(session[t].reply) <= Len(Services[t])
    /\ ~session[t].has_errors =>
           \A i \in 1..Len(session[t].reply) :
               session[t].reply[i].response \in Responses(Services[t][i], t)

Replied(t) ==
    /\ session[t] \in [pc : {"done"}, status : {"ok"}, reply : Seq(Entries(t))]
    /\ \A i \in 1..Len(Services[t]) :
           session[t].reply[i].response \in Responses(Services[t][i], t)

Streaming(t) ==
    \/ session[t] = [pc |-> "none"]
    \/ Running(t)
    \/ session[t] = [pc |-> "done", status |-> "internal"]
    \/ Replied(t)

\* A store in progress is that of the tester's next piece.
Storing(t) ==
    /\ Answered(t) /\ backend = "file"
    /\ progress[t].report = "pending"
    /\ progress[t].stored < Len(Services[t])
    /\ LET p == Piece(t, progress[t].stored + 1)
       IN call[t] \in [pc : {"writing"}, piece : {p}]
                      \union [pc : {"renaming"}, piece : {p}, whole : Wholeness]

\* A call that is over without a report; an acknowledged piece is in the file sink.
Acknowledged(t) ==
    /\ call[t] \in [pc : {"done"}, status : {"ok", "unavailable", "invalid", "internal", "not_found",
                                            "corrupt"}]
    /\ ~LateWriteErrors => call[t].status # "corrupt"
    /\ call[t].status = "ok" =>
           /\ Answered(t)
           /\ progress[t].stored < Len(Services[t])
           /\ backend = "file" => InFile(Piece(t, progress[t].stored + 1), stored)

\* A load in progress has read whole pieces of the execution only, and will not end before
\* it has read the tester's own.
Loading(t) ==
    /\ Answered(t) /\ progress[t].report = "pending" /\ progress[t].stored = Len(Services[t])
    /\ call[t] \in [pc : {"loading"}, id : {execution_id[t]},
                    from : SUBSET Files(Genuine(execution_id[t]), Wholeness),
                    seen : Seq(Files(Genuine(execution_id[t]), {TRUE}))]
    /\ backend = "file" => \A p \in Pieces(t) : InFile(p, call[t].from)

\* A load that is over: what was read, and the merge of it.
Loaded(t) ==
    /\ Answered(t) /\ progress[t].stored = Len(Services[t])
    /\ call[t].pieces \in Seq(Genuine(execution_id[t]))
    /\ LET merged == S!mergeExecutionResponses(execution_id[t], call[t].pieces)
       IN call[t] = [pc |-> "done", status |-> merged.status, pieces |-> call[t].pieces,
                     merged |-> merged]
    /\ backend = "file" => \A p \in Pieces(t) : \E k \in DOMAIN call[t].pieces : p = call[t].pieces[k]

Calling(t) == call[t] = S!NoCall \/ Storing(t) \/ Acknowledged(t) \/ Loading(t) \/ Loaded(t)

\* What the tester has had acknowledged so far is in the file sink.
Kept(t) ==
    /\ ~Answered(t) => progress[t].stored = 0
    /\ progress[t].stored <= Len(Services[t])
    /\ backend = "file" =>
           \A i \in 1..progress[t].stored : InFile(Piece(t, i), stored)

TestTyped ==
    /\ session = [t \in Testers |-> session[t]]
    /\ call = [t \in Testers |-> call[t]]
    /\ progress \in [Testers -> [stored : Nat, report : {"pending", "failed", "complete"}]]
    /\ \A f \in stored : f \in Files(Genuine(f.piece.id), Wholeness)

TestInv ==
    /\ TestTyped
    /\ \A t \in Testers : Streaming(t)
    /\ \A t \in Testers : Calling(t)
    /\ \A t \in Testers : Kept(t)
    /\ \A t \in Testers : progress[t].report = "complete" => Loaded(t) /\ call[t].status = "ok"

LEMMA ServicesTyped ==
    ASSUME NEW t \in Testers
    PROVE  Len(Services[t]) \in Nat /\ DOMAIN Services[t] = 1..Len(Services[t])
BY ServicesAssumption

\* A piece carries the tester's execution id and comes from the service it was asked of.
LEMMA PieceFacts ==
    ASSUME NEW t \in Testers, Streaming(t), Answered(t), NEW i \in DOMAIN Services[t]
    PROVE  /\ Piece(t, i).id = execution_id[t]
           /\ Piece(t, i).by = Services[t][i]
           /\ Piece(t, i).error \in BOOLEAN
           /\ Piece(t, i).results \subseteq {Services[t][i]} \X Sharers(Services[t][i])
<1>1. Replied(t)
  BY DEF Streaming, Answered, Running
<1>2. PICK r : r = session[t].reply[i].response
  OBVIOUS
<1>3. r \in Responses(Services[t][i], t)
  BY <1>1, <1>2, ServicesTyped, Zenon DEF Replied
<1>4. /\ r.by = Services[t][i] /\ r.error \in BOOLEAN
      /\ r.results \subseteq {Services[t][i]} \X Sharers(Services[t][i])
  <2>1. CASE \E e \in BOOLEAN, v \in Versions, u \in Sharers(Services[t][i]) :
                r = [by |-> Services[t][i], error |-> e, options |-> "options", version |-> v,
                     results |-> {<<Services[t][i], u>>}]
    BY <2>1
  <2>2. CASE r = [by |-> Services[t][i], error |-> TRUE, options |-> "none", version |-> "none",
                  results |-> {}]
    BY <2>2
  <2> QED
    BY <1>3, <2>1, <2>2 DEF Responses
<1>5. Piece(t, i) = [id |-> execution_id[t], by |-> r.by, error |-> r.error, options |-> r.options,
                     version |-> r.version, results |-> r.results]
  BY <1>2 DEF Piece
<1> QED
  BY <1>4, <1>5

LEMMA GenuineFacts ==
    ASSUME \A t \in Testers : Streaming(t), NEW id, NEW p \in Genuine(id)
    PROVE  /\ p.id = id
           /\ p.error \in BOOLEAN
           /\ \A r \in p.results :
                  \E u \in Testers : /\ execution_id[u] = id
                                     /\ r[1] \in Named(u) /\ r[2] \in Sharers(r[1])
<1>1. PICK t \in Testers : Answered(t) /\ execution_id[t] = id /\ p \in Pieces(t)
  BY DEF Genuine
<1>2. PICK i \in DOMAIN Services[t] : p = Piece(t, i)
  BY <1>1 DEF Pieces
<1>3. /\ p.id = id /\ p.error \in BOOLEAN
      /\ p.results \subseteq {Services[t][i]} \X Sharers(Services[t][i])
  BY <1>1, <1>2, PieceFacts
<1>4. Services[t][i] \in Named(t)
  BY DEF Named
<1>5. ASSUME NEW r \in p.results
      PROVE  r[1] \in Named(t) /\ r[2] \in Sharers(r[1])
  BY <1>3, <1>4
<1> QED
  BY <1>1, <1>3, <1>5

LEMMA OwnIsGenuine ==
    ASSUME NEW t \in Testers, Answered(t)
    PROVE  Pieces(t) \subseteq Genuine(execution_id[t])
BY DEF Genuine

\* An answer once given stays.
Steady ==
    /\ execution_id' = execution_id
    /\ \A t \in Testers : Answered(t) => session'[t] = session[t]

LEMMA AnswersStay ==
    ASSUME Steady, NEW t \in Testers, Answered(t)
    PROVE  /\ Answered(t)'
           /\ \A i : Piece(t, i)' = Piece(t, i)
           /\ Pieces(t)' = Pieces(t)
<1>1. session'[t] = session[t] /\ execution_id' = execution_id
  BY DEF Steady
<1>2. Answered(t)'
  BY <1>1 DEF Answered
<1>3. \A i : Piece(t, i)' = Piece(t, i)
  BY <1>1 DEF Piece
<1>4. Pieces(t)' = Pieces(t)
  BY <1>3 DEF Pieces
<1> QED
  BY <1>2, <1>3, <1>4

LEMMA GenuineGrows ==
    ASSUME Steady, NEW id
    PROVE  Genuine(id) \subseteq Genuine(id)'
<1> SUFFICES ASSUME NEW p \in Genuine(id)
             PROVE  p \in Genuine(id)'
  OBVIOUS
<1>1. PICK t \in Testers : Answered(t) /\ execution_id[t] = id /\ p \in Pieces(t)
  BY DEF Genuine
<1>2. Answered(t)' /\ execution_id'[t] = id /\ p \in Pieces(t)'
  BY <1>1, AnswersStay DEF Steady
<1> QED
  BY <1>2 DEF Genuine

LEMMA FilesGrow ==
    ASSUME NEW P, NEW Q, P \subseteq Q, NEW W
    PROVE  Files(P, W) \subseteq Files(Q, W) /\ Seq(Files(P, W)) \subseteq Seq(Files(Q, W))
<1>1. Files(P, W) \subseteq Files(Q, W)
  BY DEF Files
<1> QED
  BY <1>1

LEMMA InMoreFiles ==
    ASSUME NEW p, NEW F, NEW G, F \subseteq G, InFile(p, F)
    PROVE  InFile(p, G)
BY DEF InFile

LEMMA WholenessFlag == Wholeness' = Wholeness
BY DEF Wholeness

-----------------------------------------------------------------------------
(* What a step leaves alone stays as it was.                               *)

\* The file sink loses nothing.
Retained == backend' = backend /\ (backend = "file" => stored \subseteq stored')

LEMMA CallStays ==
    ASSUME NEW t \in Testers, Calling(t), Steady, Retained,
           call'[t] = call[t], progress'[t] = progress[t]
    PROVE  Calling(t)'
<1>1. CASE call[t] = S!NoCall
  BY <1>1 DEF Calling, S!NoCall
<1>2. CASE Storing(t)
  <2>1. Answered(t)
    BY <1>2 DEF Storing
  <2>2. Answered(t)' /\ Piece(t, progress[t].stored + 1)' = Piece(t, progress[t].stored + 1)
    BY <2>1, AnswersStay
  <2>3. Storing(t)'
    BY <1>2, <2>2, Zenon DEF Storing, Retained, Wholeness
  <2> QED
    BY <2>3 DEF Calling
<1>3. CASE Acknowledged(t)
  <2>1. CASE call[t].status = "ok"
    <3>1. Answered(t)
      BY <1>3, <2>1 DEF Acknowledged
    <3>2. Answered(t)' /\ Piece(t, progress[t].stored + 1)' = Piece(t, progress[t].stored + 1)
      BY <3>1, AnswersStay
    <3>3. Acknowledged(t)'
      BY <1>3, <3>2, Zenon DEF Acknowledged, Retained, InFile, Wholeness
    <3> QED
      BY <3>3 DEF Calling
  <2>2. CASE call[t].status # "ok"
    BY <1>3, <2>2 DEF Acknowledged, Calling
  <2> QED
    BY <2>1, <2>2
<1>4. CASE Loading(t)
  <2>1. Answered(t)
    BY <1>4 DEF Loading
  <2>2. Answered(t)' /\ Pieces(t)' = Pieces(t) /\ execution_id' = execution_id
    BY <2>1, AnswersStay DEF Steady
  <2>3. PICK id, next : id = execution_id[t] /\ next = Genuine(id)'
    OBVIOUS
  <2>4. Genuine(id) \subseteq next
    BY <2>3, GenuineGrows
  <2>5. /\ Files(Genuine(id), Wholeness) \subseteq Files(next, Wholeness)
        /\ Seq(Files(Genuine(id), {TRUE})) \subseteq Seq(Files(next, {TRUE}))
    BY <2>4, FilesGrow, Zenon
  <2>6. call[t] \in [pc : {"loading"}, id : {id}, from : SUBSET Files(Genuine(id), Wholeness),
                     seen : Seq(Files(Genuine(id), {TRUE}))]
    BY <1>4, <2>3 DEF Loading
  <2>7. call'[t] \in [pc : {"loading"}, id : {id}, from : SUBSET Files(next, Wholeness),
                      seen : Seq(Files(next, {TRUE}))]
    BY <2>5, <2>6
  <2>8. Genuine(execution_id[t])' = next /\ execution_id'[t] = id
    BY <2>2, <2>3
  <2>9. /\ Files(Genuine(execution_id[t]), Wholeness)' = Files(next, Wholeness)
        /\ Files(Genuine(execution_id[t]), {TRUE})' = Files(next, {TRUE})
    BY <2>8, WholenessFlag DEF Files
  <2>10. Loading(t)'
    BY <1>4, <2>2, <2>7, <2>8, <2>9, Zenon DEF Loading, Retained, InFile, Wholeness
  <2> QED
    BY <2>10 DEF Calling
<1>5. CASE Loaded(t)
  <2>1. Answered(t)
    BY <1>5 DEF Loaded
  <2>2. Answered(t)' /\ Pieces(t)' = Pieces(t) /\ execution_id' = execution_id
    BY <2>1, AnswersStay DEF Steady
  <2>3. Seq(Genuine(execution_id[t])) \subseteq Seq(Genuine(execution_id[t]))'
    BY <2>2, GenuineGrows
  <2>4. Loaded(t)'
    BY <1>5, <2>2, <2>3 DEF Loaded, Retained
  <2> QED
    BY <2>4 DEF Calling
<1> QED
  BY <1>1, <1>2, <1>3, <1>4, <1>5 DEF Calling

\* A report that is there stays too.
LEMMA LoadStays ==
    ASSUME NEW t \in Testers, Loaded(t), Steady, backend' = backend,
           call'[t] = call[t], progress'[t].stored = progress[t].stored
    PROVE  Loaded(t)'
<1>1. Answered(t)
  BY DEF Loaded
<1>2. Answered(t)' /\ Pieces(t)' = Pieces(t) /\ execution_id' = execution_id
  BY <1>1, AnswersStay DEF Steady
<1>3. Seq(Genuine(execution_id[t])) \subseteq Seq(Genuine(execution_id[t]))'
  BY <1>2, GenuineGrows
<1> QED
  BY <1>2, <1>3 DEF Loaded

LEMMA KeptStays ==
    ASSUME NEW t \in Testers, Kept(t), Steady, Retained,
           progress[t].stored \in Nat,
           progress'[t].stored = progress[t].stored
    PROVE  Kept(t)'
<1>1. CASE Answered(t)
  <2>1. Answered(t)' /\ \A i : Piece(t, i)' = Piece(t, i)
    BY <1>1, AnswersStay
  <2> QED
    BY <1>1, <2>1, Zenon DEF Kept, Retained, InFile, Wholeness
<1>2. CASE ~Answered(t)
  BY <1>2 DEF Kept
<1> QED
  BY <1>1, <1>2

LEMMA StoredStays ==
    ASSUME Steady, \A f \in stored : f \in Files(Genuine(f.piece.id), Wholeness), stored' \subseteq stored
    PROVE  (\A f \in stored : f \in Files(Genuine(f.piece.id), Wholeness))'
<1> SUFFICES ASSUME NEW f \in stored'
             PROVE  f \in Files(Genuine(f.piece.id), Wholeness)'
  OBVIOUS
<1>1. f \in Files(Genuine(f.piece.id), Wholeness)
  OBVIOUS
<1>2. Genuine(f.piece.id) \subseteq Genuine(f.piece.id)'
  BY GenuineGrows
<1> QED
  BY <1>1, <1>2, WholenessFlag DEF Files

LEMMA StreamStays ==
    ASSUME NEW t \in Testers, Streaming(t), session'[t] = session[t]
    PROVE  Streaming(t)'
BY DEF Streaming, Running, Replied, Entries

\* A step of one tester leaves the invariant of the others alone.
LEMMA OthersStay ==
    ASSUME TestInv, Steady, Retained, NEW t \in Testers,
           \A u \in Testers \ {t} : /\ session'[u] = session[u]
                                    /\ call'[u] = call[u]
                                    /\ progress'[u] = progress[u],
           TestTyped', Streaming(t)', Calling(t)', Kept(t)',
           progress'[t].report = "complete" => Loaded(t)' /\ call'[t].status = "ok"
    PROVE  TestInv'
<1>1. ASSUME NEW u \in Testers, u # t
      PROVE  /\ Streaming(u)' /\ Calling(u)' /\ Kept(u)'
             /\ progress'[u].report = "complete" => Loaded(u)' /\ call'[u].status = "ok"
  <2>1. /\ session'[u] = session[u] /\ call'[u] = call[u] /\ progress'[u] = progress[u]
        /\ progress[u].stored \in Nat
    BY <1>1 DEF TestInv, TestTyped
  <2>2. Streaming(u)'
    BY <2>1, StreamStays DEF TestInv
  <2>3. Calling(u)'
    BY <2>1, CallStays DEF TestInv
  <2>4. Kept(u)'
    BY <2>1, KeptStays DEF TestInv
  <2>5. ASSUME progress'[u].report = "complete"
        PROVE  Loaded(u)' /\ call'[u].status = "ok"
    <3>1. Loaded(u) /\ call[u].status = "ok"
      BY <2>1, <2>5 DEF TestInv
    <3>2. Loaded(u)'
      BY <2>1, <3>1, LoadStays DEF Retained
    <3> QED
      BY <2>1, <3>1, <3>2
  <2> QED
    BY <2>2, <2>3, <2>4, <2>5
<1>2. \A u \in Testers : Streaming(u)' /\ Calling(u)' /\ Kept(u)'
  BY <1>1
<1>3. \A u \in Testers : progress'[u].report = "complete" => Loaded(u)' /\ call'[u].status = "ok"
  BY <1>1
<1> QED
  BY <1>2, <1>3 DEF TestInv

-----------------------------------------------------------------------------
(* The distributor.                                                        *)

LEMMA RequestStreams ==
    ASSUME NEW t \in Testers, t \in DOMAIN session, NEW valid \in BOOLEAN, D!RequestArrives(t, valid)
    PROVE  Streaming(t)'
<1>1. \/ session'[t] = [pc |-> "running", reply |-> <<>>, has_errors |-> FALSE]
      \/ session'[t] = [pc |-> "done", status |-> "internal"]
  BY DEF D!RequestArrives, D!To
<1>2. CASE session'[t] = [pc |-> "running", reply |-> <<>>, has_errors |-> FALSE]
  <2>1. PICK next : next = session'[t]
    OBVIOUS
  <2>2. /\ next \in [pc : {"running"}, reply : Seq(Entries(t)), has_errors : BOOLEAN]
        /\ next.reply = <<>> /\ Len(next.reply) = 0
    BY <1>2, <2>1
  <2>3. /\ Len(next.reply) <= Len(Services[t])
        /\ \A i \in 1..Len(next.reply) : FALSE
    BY <2>2, ServicesTyped
  <2>4. Entries(t)' = Entries(t)
    BY DEF Entries
  <2>5. Running(t)'
    BY <2>1, <2>2, <2>3, <2>4 DEF Running
  <2> QED
    BY <2>5 DEF Streaming
<1> QED
  BY <1>1, <1>2 DEF Streaming

LEMMA SessionAfter ==
    ASSUME NEW reply, NEW errors, NEW more,
           NEW x, x = [pc |-> "running", reply |-> reply, has_errors |-> errors]
    PROVE  /\ [x EXCEPT !.reply = more] \in [pc : {"running"}, reply : {more}, has_errors : {errors}]
           /\ [x EXCEPT !.reply = more, !.has_errors = TRUE] \in
                  [pc : {"running"}, reply : {more}, has_errors : {TRUE}]
<1>1. x \in [pc : {"running"}, reply : {reply}, has_errors : {errors}]
  OBVIOUS
<1> QED
  BY <1>1, Zenon

LEMMA ServiceStreams ==
    ASSUME NEW t \in Testers, t \in DOMAIN session, Streaming(t), NEW s, D!CallsService(t, s)
    PROVE  Streaming(t)'
<1>1. PICK now, reply, errors, next :
          /\ now = session[t] /\ next = session'[t]
          /\ reply = now.reply /\ errors = now.has_errors
  OBVIOUS
<1>2. /\ now = [pc |-> "running", reply |-> reply, has_errors |-> errors]
      /\ reply \in Seq(Entries(t)) /\ errors \in BOOLEAN
      /\ Len(reply) <= Len(Services[t])
      /\ ~errors => \A i \in 1..Len(reply) : reply[i].response \in Responses(Services[t][i], t)
  BY <1>1 DEF D!CallsService, Streaming, Running, Replied
<1>3. Len(reply) \in Nat /\ Len(reply) + 1 <= Len(Services[t]) /\ s = Services[t][Len(reply) + 1]
  BY <1>1, <1>2 DEF D!CallsService, D!Next_
<1>4. s \in Named(t) /\ Len(reply) + 1 \in 1..Len(Services[t])
  BY <1>3, ServicesTyped DEF Named
<1> DEFINE After(r, e) == /\ next \in [pc : {"running"}, has_errors : {e},
                                       reply : {Append(reply, [service |-> s, response |-> r])}]
                          /\ (r \in Responses(s, t) /\ e = errors) \/ (r = NoResponse /\ e = TRUE)
<1>5. PICK r, e : After(r, e)
  <2> DEFINE entry(r) == [service |-> s, response |-> r]
  <2>1. CASE \E r \in Responses(s, t) :
                 session' = [session EXCEPT ![t] = [session[t] EXCEPT !.reply = Append(@, entry(r))]]
    <3>1. PICK r \in Responses(s, t) :
              session' = [session EXCEPT ![t] = [session[t] EXCEPT !.reply = Append(@, entry(r))]]
      BY <2>1, Zenon
    <3>2. PICK more : more = Append(reply, entry(r))
      BY Zenon
    <3>3. next = [now EXCEPT !.reply = more]
      BY <1>1, <3>1, <3>2
    <3>4. next \in [pc : {"running"}, reply : {more}, has_errors : {errors}]
      BY <1>2, <3>3, SessionAfter, Zenon
    <3>5. After(r, errors)
      BY <3>2, <3>4
    <3> QED
      BY <3>5, Zenon
  <2>2. CASE session' = [session EXCEPT ![t] = [session[t] EXCEPT !.reply = Append(@, entry(NoResponse)),
                                                                  !.has_errors = TRUE]]
    <3>1. PICK more : more = Append(reply, entry(NoResponse))
      BY Zenon
    <3>2. next = [now EXCEPT !.reply = more, !.has_errors = TRUE]
      BY <1>1, <2>2, <3>1
    <3>3. next \in [pc : {"running"}, reply : {more}, has_errors : {TRUE}]
      BY <1>2, <3>2, SessionAfter, Zenon
    <3>4. After(NoResponse, TRUE)
      BY <3>1, <3>3, Zenon
    <3> QED
      BY <3>4, Zenon
  <2> QED
    BY <2>1, <2>2, Zenon DEF D!CallsService, D!To
<1>6. [service |-> s, response |-> r] \in Entries(t) /\ e \in BOOLEAN
  BY <1>2, <1>4, <1>5, Zenon DEF Entries
<1>7. /\ next \in [pc : {"running"}, reply : {next.reply}, has_errors : {e}]
       /\ next.reply = Append(reply, [service |-> s, response |-> r])
  BY <1>5
<1>8. /\ next \in [pc : {"running"}, reply : Seq(Entries(t)), has_errors : BOOLEAN]
      /\ next.has_errors = e
      /\ Len(next.reply) = Len(reply) + 1
      /\ \A i \in 1..Len(reply) : next.reply[i] = reply[i]
      /\ next.reply[Len(reply) + 1].response = r
  <2>1. PICK entry, more : entry = [service |-> s, response |-> r] /\ more = next.reply
    BY Zenon
  <2>2. more = Append(reply, entry) /\ entry \in Entries(t) /\ entry.response = r
    BY <1>6, <1>7, <2>1
  <2>3. /\ more \in Seq(Entries(t)) /\ Len(more) = Len(reply) + 1
        /\ \A i \in 1..Len(reply) : more[i] = reply[i]
        /\ more[Len(reply) + 1] = entry
    BY <1>2, <2>2
  <2>4. next \in [pc : {"running"}, reply : {more}, has_errors : {e}]
    BY <1>7, <2>1, Zenon
  <2>5. /\ next \in [pc : {"running"}, reply : Seq(Entries(t)), has_errors : BOOLEAN]
        /\ next.has_errors = e
    BY <1>6, <2>3, <2>4
  <2> QED
    BY <2>1, <2>2, <2>3, <2>5
<1>9. ~e => \A i \in 1..Len(next.reply) : next.reply[i].response \in Responses(Services[t][i], t)
  BY <1>2, <1>3, <1>5, <1>8
<1>10. Entries(t)' = Entries(t)
  BY DEF Entries
<1>11. Running(t)'
  BY <1>1, <1>3, <1>8, <1>9, <1>10 DEF Running
<1> QED
  BY <1>11 DEF Streaming

LEMMA RepliesStreams ==
    ASSUME NEW t \in Testers, t \in DOMAIN session, Streaming(t), D!Replies(t)
    PROVE  Streaming(t)'
<1>1. Running(t)
  BY DEF D!Replies, Streaming, Replied
<1>2. PICK reply, next : reply = session[t].reply /\ next = session'[t]
  OBVIOUS
<1>3. /\ reply \in Seq(Entries(t)) /\ Len(reply) <= Len(Services[t])
      /\ ~session[t].has_errors =>
             \A i \in 1..Len(reply) : reply[i].response \in Responses(Services[t][i], t)
  BY <1>1, <1>2 DEF Running
<1>4. Len(reply) = Len(Services[t])
  BY <1>2, <1>3, ServicesTyped DEF D!Replies, D!Next_
<1>5. \/ next = [pc |-> "done", status |-> "internal"]
      \/ ~session[t].has_errors /\ next = [pc |-> "done", status |-> "ok", reply |-> reply]
  BY <1>2 DEF D!Replies, D!To
<1>6. CASE next = [pc |-> "done", status |-> "internal"]
  BY <1>2, <1>6 DEF Streaming
<1>7. CASE ~session[t].has_errors /\ next = [pc |-> "done", status |-> "ok", reply |-> reply]
  <2>1. Entries(t)' = Entries(t)
    BY DEF Entries
  <2>2. Replied(t)'
    BY <1>2, <1>3, <1>4, <1>7, <2>1 DEF Replied
  <2> QED
    BY <2>2 DEF Streaming
<1> QED
  BY <1>5, <1>6, <1>7

LEMMA DistributesInv ==
    ASSUME TestInv, NEW t \in Testers, Distributes(t)
    PROVE  TestInv'
<1>1. t \in DOMAIN session /\ Streaming(t)
  BY DEF TestInv, TestTyped
<1>2. ~Answered(t)
  BY Zenon DEF Distributes, D!RequestArrives, D!CallsService, D!Replies, Answered
<1>3. Streaming(t)'
  BY <1>1, RequestStreams, ServiceStreams, RepliesStreams DEF Distributes
<1>4. PICK next : session' = [session EXCEPT ![t] = next]
  BY Zenon DEF Distributes, D!RequestArrives, D!CallsService, D!Replies, D!To
<1>5. /\ UNCHANGED <<backend, dirs, stored, call, up>>
      /\ UNCHANGED <<execution_id, progress>>
  BY DEF Distributes, sinkVars
<1>6. \A u \in Testers \ {t} : session'[u] = session[u]
  BY <1>4 DEF TestInv, TestTyped
<1>7. session' = [u \in Testers |-> session'[u]]
  BY <1>4, Zenon DEF TestInv, TestTyped
<1>8. Steady /\ Retained
  BY <1>2, <1>5, <1>6 DEF Steady, Retained
<1>9. TestTyped'
  <2>1. (\A f \in stored : f \in Files(Genuine(f.piece.id), Wholeness))'
    BY <1>5, <1>8, StoredStays DEF TestInv, TestTyped
  <2>2. call' = [u \in Testers |-> call'[u]] /\ progress' = progress
    BY <1>5 DEF TestInv, TestTyped
  <2> QED
    BY <1>7, <2>1, <2>2 DEF TestInv, TestTyped
<1>10. /\ call'[t] = call[t] /\ progress'[t] = progress[t] /\ progress[t].stored \in Nat
       /\ Calling(t) /\ Kept(t)
  BY <1>5 DEF TestInv, TestTyped
<1>11. Calling(t)' /\ Kept(t)'
  BY <1>8, <1>10, CallStays, KeptStays
<1>12. progress'[t].report # "complete"
  BY <1>2, <1>10, Zenon DEF TestInv, Loaded
<1> QED
  BY <1>3, <1>5, <1>6, <1>8, <1>9, <1>11, <1>12, OthersStay

-----------------------------------------------------------------------------
(* The sink.                                                               *)

\* A step of one tester's call that leaves everything but the call and the store alone.
CallMoves(t) ==
    /\ \E next : call' = [call EXCEPT ![t] = next]
    /\ UNCHANGED <<session, backend, execution_id, progress>>
    /\ progress[t].report = "pending"
    /\ stored \subseteq stored'
    /\ \A f \in stored' \ stored : f \in Files(Genuine(f.piece.id), Wholeness)

LEMMA CallInv ==
    ASSUME TestInv, NEW t \in Testers, CallMoves(t), Calling(t)'
    PROVE  TestInv'
<1>1. Steady /\ Retained /\ UNCHANGED <<session, progress, execution_id>>
  BY DEF CallMoves, Steady, Retained
<1>2. PICK next : call' = [call EXCEPT ![t] = next]
  BY Zenon DEF CallMoves
<1>3. call' = [u \in Testers |-> call'[u]] /\ \A u \in Testers \ {t} : call'[u] = call[u]
  BY <1>2, Zenon DEF TestInv, TestTyped
<1>4. (\A f \in stored : f \in Files(Genuine(f.piece.id), Wholeness))'
  <2> SUFFICES ASSUME NEW f \in stored'
               PROVE  f \in Files(Genuine(f.piece.id), Wholeness)'
    OBVIOUS
  <2>1. f \in Files(Genuine(f.piece.id), Wholeness)
    BY DEF CallMoves, TestInv, TestTyped
  <2>2. Genuine(f.piece.id) \subseteq Genuine(f.piece.id)'
    BY <1>1, GenuineGrows
  <2> QED
    BY <2>1, <2>2, WholenessFlag DEF Files
<1>5. TestTyped'
  BY <1>1, <1>3, <1>4 DEF TestInv, TestTyped
<1>6. Streaming(t)' /\ Kept(t)'
  <2>1. progress[t].stored \in Nat /\ progress'[t].stored = progress[t].stored
        /\ session'[t] = session[t] /\ Streaming(t) /\ Kept(t)
    BY <1>1 DEF TestInv, TestTyped
  <2> QED
    BY <1>1, <2>1, StreamStays, KeptStays
<1>7. progress'[t].report # "complete"
  BY <1>1 DEF CallMoves
<1> QED
  BY <1>1, <1>3, <1>5, <1>6, <1>7, OthersStay

\* The next piece a tester has to store.
LEMMA NextPiece ==
    ASSUME TestInv, NEW t \in Testers, Answered(t), progress[t].stored < Len(Services[t])
    PROVE  LET p == Piece(t, progress[t].stored + 1)
           IN p \in Pieces(t) /\ p.id = execution_id[t] /\ p \in Genuine(p.id)
<1>1. progress[t].stored + 1 \in DOMAIN Services[t]
  BY ServicesTyped DEF TestInv, TestTyped
<1>2. Piece(t, progress[t].stored + 1) \in Pieces(t)
  BY <1>1 DEF Pieces
<1>3. Piece(t, progress[t].stored + 1).id = execution_id[t]
  BY <1>1, PieceFacts DEF TestInv
<1> QED
  BY <1>2, <1>3, OwnIsGenuine

LEMMA EndedCalls ==
    ASSUME NEW t \in Testers, NEW s \in {"unavailable", "invalid", "internal", "not_found", "corrupt"},
           call'[t] = S!Ended(s), ~LateWriteErrors => s # "corrupt"
    PROVE  Calling(t)'
<1>1. Acknowledged(t)'
  BY DEF Acknowledged, S!Ended
<1> QED
  BY <1>1 DEF Calling

\* Nothing is known to be incomplete.
LEMMA WholeIsAWholeness == TRUE \in Wholeness
BY Zenon DEF Wholeness

LEMMA FileFacts ==
    ASSUME NEW P, NEW p \in P, NEW W, NEW w \in W
    PROVE  File(p, w) \in Files(P, W) /\ File(p, w).piece = p /\ File(p, w).whole = w
<1>1. File(p, w) \in Files(P, W)
  BY DEF Files
<1> QED
  BY <1>1 DEF File

\* The step a call has reached tells what is known of it.
LEMMA CallPhases ==
    ASSUME TestInv, NEW t \in Testers
    PROVE  /\ call[t].pc \in {"writing", "renaming"} => Storing(t)
           /\ call[t].pc = "loading" => Loading(t)
           /\ call[t].pc = "done" => Acknowledged(t) \/ Loaded(t)
<1>1. Calling(t)
  BY DEF TestInv
<1>2. call[t] = S!NoCall => call[t].pc = "none"
  BY DEF S!NoCall
<1>3. Storing(t) => call[t].pc \in {"writing", "renaming"}
  BY DEF Storing
<1>4. Acknowledged(t) => call[t].pc = "done"
  BY DEF Acknowledged
<1>5. Loading(t) => call[t].pc = "loading"
  BY DEF Loading
<1>6. Loaded(t) => call[t].pc = "done"
  BY DEF Loaded
<1> QED
  BY <1>1, <1>2, <1>3, <1>4, <1>5, <1>6 DEF Calling

LEMMA SameSessions ==
    ASSUME UNCHANGED <<session, execution_id>>, NEW t \in Testers
    PROVE  /\ Genuine(execution_id[t])' = Genuine(execution_id[t])
           /\ Pieces(t)' = Pieces(t)
           /\ Answered(t)' <=> Answered(t)
           /\ execution_id'[t] = execution_id[t]
BY DEF Genuine, Pieces, Piece, Answered

LEMMA StoresInv ==
    ASSUME TestInv, NEW t \in Testers, Stores(t)
    PROVE  TestInv'
<1>1. PICK p : p = Piece(t, progress[t].stored + 1)
  BY Zenon
<1>2. /\ Answered(t) /\ progress[t].report = "pending" /\ progress[t].stored < Len(Services[t])
      /\ S!StoreBegins(t, p)
      /\ UNCHANGED <<session, execution_id, progress>>
      /\ call[t] = S!NoCall
  BY <1>1 DEF Stores, Answered, S!StoreBegins
<1>3. p \in Pieces(t) /\ p.id = execution_id[t] /\ p \in Genuine(p.id)
  BY <1>1, <1>2, NextPiece
<1>4. t \in DOMAIN call
  BY DEF TestInv, TestTyped
<1>5. backend' = backend /\ Answered(t)' /\ p = Piece(t, progress[t].stored + 1)'
  BY <1>1, <1>2, Zenon DEF S!StoreBegins, Answered, Piece
<1>6. CASE \E s \in {"unavailable", "invalid", "internal"} : S!To(t, S!Ended(s)) /\ stored' = stored
  <2>1. PICK s \in {"unavailable", "invalid", "internal"} : S!To(t, S!Ended(s)) /\ stored' = stored
    BY <1>6
  <2>2. CallMoves(t)
    BY <1>2, <1>5, <2>1, Zenon DEF CallMoves, S!To
  <2>3. call'[t] = S!Ended(s)
    BY <1>4, <2>1 DEF S!To
  <2> QED
    BY <2>2, <2>3, EndedCalls, CallInv
<1>7. CASE stored' = stored \union {File(p, TRUE)} /\ S!To(t, S!Ended("ok"))
  <2>1. File(p, TRUE) \in Files(Genuine(p.id), Wholeness) /\ File(p, TRUE).piece = p
    BY <1>3, WholeIsAWholeness, FileFacts, Zenon
  <2>2. CallMoves(t)
    <3>1. \E next : call' = [call EXCEPT ![t] = next]
      BY <1>7, Zenon DEF S!To
    <3>2. \A f \in stored' \ stored : f = File(p, TRUE)
      BY <1>7, Zenon
    <3>3. \A f \in stored' \ stored : f \in Files(Genuine(f.piece.id), Wholeness)
      BY <2>1, <3>2, Zenon
    <3>4. stored \subseteq stored'
      BY <1>7, Zenon
    <3> QED
      BY <1>2, <1>5, <3>1, <3>3, <3>4, Zenon DEF CallMoves
  <2>3. call'[t] = S!Ended("ok")
    BY <1>4, <1>7 DEF S!To
  <2>4. InFile(p, stored')
    BY <1>7, WholeIsAWholeness, Zenon DEF InFile
  <2>5. InFile(Piece(t, progress[t].stored + 1), stored)'
    BY <1>5, <2>4, Zenon DEF InFile, Wholeness
  <2>6. Acknowledged(t)'
    BY <1>2, <1>5, <2>3, <2>5 DEF Acknowledged, S!Ended
  <2> QED
    BY <2>2, <2>6, CallInv DEF Calling
<1>8. CASE backend = "file" /\ stored' = stored /\ S!To(t, [pc |-> "writing", piece |-> p])
  <2>1. CallMoves(t)
    BY <1>2, <1>5, <1>8, Zenon DEF CallMoves, S!To
  <2>2. call'[t] = [pc |-> "writing", piece |-> p]
    BY <1>4, <1>8 DEF S!To
  <2>3. Storing(t)'
    BY <1>2, <1>5, <1>8, <2>2 DEF Storing
  <2> QED
    BY <2>1, <2>3, CallInv DEF Calling
<1> QED
  BY <1>2, <1>6, <1>7, <1>8 DEF S!StoreBegins, File

\* What is stored under an id is of that execution.
LEMMA UnderIsGenuine ==
    ASSUME TestInv, NEW id
    PROVE  S!Under(id) \subseteq Files(Genuine(id), Wholeness)
BY DEF TestInv, TestTyped, S!Under

LEMMA QueriesInv ==
    ASSUME TestInv, NEW t \in Testers, Queries(t)
    PROVE  TestInv'
<1>1. PICK id : id = execution_id[t]
  OBVIOUS
<1>2. /\ Answered(t) /\ progress[t].report = "pending" /\ progress[t].stored = Len(Services[t])
      /\ S!LoadBegins(t, id)
      /\ UNCHANGED <<session, execution_id, progress>>
  BY <1>1 DEF Queries, Answered
<1>3. t \in DOMAIN call /\ UNCHANGED <<backend, stored>>
  BY <1>2 DEF TestInv, TestTyped, S!LoadBegins
<1>4. CallMoves(t)
  BY <1>2, <1>3, Zenon DEF CallMoves, S!LoadBegins, S!To
<1>5. CASE \E s \in {"unavailable", "invalid", "not_found"} : call'[t] = S!Ended(s)
  BY <1>4, <1>5, EndedCalls, CallInv
<1>6. CASE call'[t] = S!Load(id, S!Under(id))
  <2>1. S!Under(id) \subseteq Files(Genuine(id), Wholeness)
    BY UnderIsGenuine
  <2>2. call'[t] \in [pc : {"loading"}, id : {id}, from : SUBSET Files(Genuine(id), Wholeness),
                      seen : Seq(Files(Genuine(id), {TRUE}))]
    BY <1>6, <2>1 DEF S!Load
  <2>3. /\ Genuine(execution_id[t])' = Genuine(id) /\ Pieces(t)' = Pieces(t)
        /\ Answered(t)' /\ execution_id'[t] = id
    BY <1>1, <1>2, SameSessions
  <2>4. ASSUME backend = "file", NEW p \in Pieces(t)
        PROVE  InFile(p, call'[t].from)
    <3>1. PICK i \in DOMAIN Services[t] : p = Piece(t, i)
      BY DEF Pieces
    <3>2. p.id = id
      BY <1>1, <1>2, <3>1, PieceFacts, Zenon DEF TestInv
    <3>3. PICK w \in Wholeness : File(p, w) \in stored
      BY <1>2, <2>4, <3>1, ServicesTyped DEF TestInv, Kept, InFile
    <3>4. File(p, w) \in S!Under(id)
      BY <3>2, <3>3, Zenon DEF File, S!Under
    <3> QED
      BY <1>6, <3>4 DEF InFile, S!Load
  <2>5. Loading(t)'
    BY <1>2, <1>3, <2>2, <2>3, <2>4, WholenessFlag DEF Loading, Files, InFile
  <2> QED
    BY <1>4, <2>5, CallInv DEF Calling
<1> QED
  BY <1>2, <1>3, <1>5, <1>6 DEF S!LoadBegins, S!To

LEMMA WritesInv ==
    ASSUME TestInv, NEW t \in Testers, S!WritesTemp(t), UNCHANGED <<session, execution_id, progress>>
    PROVE  TestInv'
<1>1. Storing(t)
  BY CallPhases DEF S!WritesTemp
<1>2. PICK p : p = Piece(t, progress[t].stored + 1)
  OBVIOUS
<1>3. call[t].piece = p
  BY <1>1, <1>2 DEF Storing, S!WritesTemp
<1>4. t \in DOMAIN call /\ UNCHANGED <<backend, stored>>
  BY DEF TestInv, TestTyped, S!WritesTemp
<1>5. CallMoves(t)
  BY <1>1, <1>4, Zenon DEF CallMoves, Storing, S!WritesTemp, S!To
<1>6. CASE call'[t] = S!Ended("internal")
  BY <1>5, <1>6, EndedCalls, CallInv
<1>7. CASE \E w \in Wholeness : call'[t] = [pc |-> "renaming", piece |-> p, whole |-> w]
  <2>1. call'[t] \in [pc : {"renaming"}, piece : {p}, whole : Wholeness]
    <3>1. PICK w \in Wholeness : call'[t] = [pc |-> "renaming", piece |-> p, whole |-> w]
      BY <1>7
    <3> QED
      BY <3>1
  <2>2. Answered(t)' /\ p = Piece(t, progress[t].stored + 1)'
    BY <1>1, <1>2, Zenon DEF Storing, Answered, Piece
  <2>3. Storing(t)'
    BY <1>1, <1>4, <2>2, <2>1, Zenon DEF Storing, Wholeness
  <2> QED
    BY <1>5, <2>3, CallInv DEF Calling
<1>8. \/ \E w \in Wholeness : call' = [call EXCEPT ![t] = [pc |-> "renaming", piece |-> p, whole |-> w]]
      \/ call' = [call EXCEPT ![t] = S!Ended("internal")]
  BY <1>3, Zenon DEF S!WritesTemp, S!To, Wholeness
<1>9. \/ \E w \in Wholeness : call'[t] = [pc |-> "renaming", piece |-> p, whole |-> w]
      \/ call'[t] = S!Ended("internal")
  BY <1>4, <1>8, Zenon
<1> QED
  BY <1>6, <1>7, <1>9, Zenon

LEMMA RenamesInv ==
    ASSUME TestInv, NEW t \in Testers, S!Renames(t), UNCHANGED <<session, execution_id, progress>>
    PROVE  TestInv'
<1>1. Storing(t)
  BY CallPhases DEF S!Renames
<1>2. PICK p : p = Piece(t, progress[t].stored + 1)
  OBVIOUS
<1>3. PICK w \in Wholeness : call[t].piece = p /\ call[t].whole = w
  <2>1. call[t] \in [pc : {"renaming"}, piece : {p}, whole : Wholeness]
    BY <1>1, <1>2 DEF Storing, S!Renames
  <2> QED
    BY <2>1, Zenon
<1>4. t \in DOMAIN call /\ UNCHANGED backend
  BY DEF TestInv, TestTyped, S!Renames
<1>5. Answered(t)' /\ p = Piece(t, progress[t].stored + 1)'
  BY <1>1, <1>2, Zenon DEF Storing, Answered, Piece
<1>6. CASE stored' = stored /\ S!To(t, S!Ended("internal"))
  <2>1. CallMoves(t) /\ call'[t] = S!Ended("internal")
    BY <1>1, <1>4, <1>6, Zenon DEF CallMoves, Storing, S!To
  <2> QED
    BY <2>1, EndedCalls, CallInv
<1>7. CASE stored' = stored \union {File(p, w)} /\ S!To(t, S!Ended("ok"))
  <2>1. File(p, w) \in Files(Genuine(p.id), Wholeness) /\ File(p, w).piece = p
    <3>1. p \in Genuine(p.id)
      BY <1>1, <1>2, NextPiece DEF Storing
    <3> QED
      BY <3>1, FileFacts
  <2>2. CallMoves(t)
    <3>1. \E next : call' = [call EXCEPT ![t] = next]
      BY <1>7, Zenon DEF S!To
    <3>2. \A f \in stored' \ stored : f = File(p, w)
      BY <1>7
    <3>3. \A f \in stored' \ stored : f \in Files(Genuine(f.piece.id), Wholeness)
      BY <2>1, <3>2
    <3>4. stored \subseteq stored'
      BY <1>7
    <3> QED
      BY <1>1, <1>4, <3>1, <3>3, <3>4, Zenon DEF CallMoves, Storing
  <2>3. call'[t] = S!Ended("ok")
    BY <1>4, <1>7 DEF S!To
  <2>4. InFile(p, stored')
    BY <1>7 DEF InFile
  <2>5. InFile(Piece(t, progress[t].stored + 1), stored)'
    BY <1>5, <2>4, Zenon DEF InFile, Wholeness
  <2>6. Acknowledged(t)'
    BY <1>1, <1>5, <2>3, <2>5 DEF Acknowledged, Storing, S!Ended
  <2> QED
    BY <2>2, <2>6, CallInv DEF Calling
<1> QED
  BY <1>3, <1>6, <1>7, Zenon DEF S!Renames, File

LEMMA ReadsInv ==
    ASSUME TestInv, NEW t \in Testers, S!LoadReads(t), UNCHANGED <<session, execution_id, progress>>
    PROVE  TestInv'
<1>1. Loading(t)
  BY CallPhases DEF S!LoadReads
<1>2. PICK id, c : id = execution_id[t] /\ c = call[t]
  OBVIOUS
<1>3. t \in DOMAIN call /\ UNCHANGED <<backend, stored>>
  BY DEF TestInv, TestTyped, S!LoadReads
<1>4. CallMoves(t)
  BY <1>1, <1>3, Zenon DEF CallMoves, Loading, S!LoadReads, S!To
<1>5. c \in [pc : {"loading"}, id : {id}, from : SUBSET Files(Genuine(id), Wholeness),
             seen : Seq(Files(Genuine(id), {TRUE}))]
  BY <1>1, <1>2 DEF Loading
<1>6. PICK f \in S!Under(id) :
          call'[t] = IF f.whole THEN [c EXCEPT !.seen = Append(@, f)] ELSE S!Ended("corrupt")
  BY <1>2, <1>3, <1>5, Zenon DEF S!LoadReads, S!To
<1>7. f \in Files(Genuine(id), Wholeness)
  BY UnderIsGenuine
<1>8. PICK p \in Genuine(id), w \in Wholeness : f = File(p, w) /\ f.whole = w
  <2>1. PICK p \in Genuine(id), w \in Wholeness : f = File(p, w)
    BY <1>7 DEF Files
  <2>2. f.whole = w
    BY <2>1, FileFacts
  <2> QED
    BY <2>1, <2>2
<1>9. CASE ~f.whole
  <2>1. call'[t] = S!Ended("corrupt")
    BY <1>6, <1>9
  <2>2. LateWriteErrors
    BY <1>7, <1>9, <1>8, Zenon DEF Wholeness
  <2> QED
    BY <1>4, <2>1, <2>2, EndedCalls, CallInv
<1>10. CASE f.whole
  <2>1. f \in Files(Genuine(id), {TRUE})
    <3>1. w = TRUE
      BY <1>10, <1>8, FileFacts DEF Wholeness
    <3> QED
      BY <1>8, <3>1, FileFacts, Zenon
  <2>2. PICK more : more = Append(c.seen, f)
    BY Zenon
  <2>3. more \in Seq(Files(Genuine(id), {TRUE}))
    BY <1>5, <2>1, <2>2
  <2>4. call'[t] = [c EXCEPT !.seen = more]
    BY <1>6, <1>10, <2>2
  <2>5. /\ call'[t] \in [pc : {"loading"}, id : {id}, from : SUBSET Files(Genuine(id), Wholeness),
                         seen : Seq(Files(Genuine(id), {TRUE}))]
        /\ call'[t].from = c.from
    <3>1. PICK next, F, G : /\ next = call'[t] /\ F = Files(Genuine(id), Wholeness)
                            /\ G = Files(Genuine(id), {TRUE})
      BY Zenon
    <3>2. /\ next = [c EXCEPT !.seen = more] /\ more \in Seq(G)
          /\ c \in [pc : {"loading"}, id : {id}, from : SUBSET F, seen : Seq(G)]
      BY <1>5, <2>3, <2>4, <3>1, Zenon
    <3>3. /\ next \in [pc : {"loading"}, id : {id}, from : SUBSET F, seen : Seq(G)]
          /\ next.from = c.from
      BY <3>2
    <3> QED
      BY <3>1, <3>3, Zenon
  <2>6. /\ Genuine(execution_id[t])' = Genuine(id) /\ Pieces(t)' = Pieces(t)
        /\ Answered(t)' /\ execution_id'[t] = id
    BY <1>1, <1>2, SameSessions, Zenon DEF Loading
  <2>7. Loading(t)'
    BY <1>1, <1>2, <1>3, <2>5, <2>6, WholenessFlag DEF Loading, Files, InFile
  <2> QED
    BY <1>4, <2>7, CallInv DEF Calling
<1> QED
  BY <1>9, <1>10

LEMMA EndsInv ==
    ASSUME TestInv, NEW t \in Testers, S!LoadEnds(t), UNCHANGED <<session, execution_id, progress>>
    PROVE  TestInv'
<1>1. Loading(t)
  BY CallPhases, Zenon DEF S!LoadEnds
<1>2. PICK id, c : id = execution_id[t] /\ c = call[t]
  OBVIOUS
<1>3. t \in DOMAIN call /\ UNCHANGED <<backend, stored>>
  BY DEF TestInv, TestTyped, S!LoadEnds
<1>4. CallMoves(t)
  BY <1>1, <1>3, Zenon DEF CallMoves, Loading, S!LoadEnds, S!To
<1>5. c \in [pc : {"loading"}, id : {id}, from : SUBSET Files(Genuine(id), Wholeness),
             seen : Seq(Files(Genuine(id), {TRUE}))]
  BY <1>1, <1>2 DEF Loading
<1>6. PICK pieces : pieces = [i \in DOMAIN c.seen |-> c.seen[i].piece]
  BY Zenon
<1>7. PICK merged : merged = S!mergeExecutionResponses(id, pieces)
  OBVIOUS
<1>8. call'[t] = [pc |-> "done", status |-> merged.status, pieces |-> pieces, merged |-> merged]
  BY <1>2, <1>3, <1>5, <1>6, <1>7 DEF S!LoadEnds, S!To
<1>9. \A i \in DOMAIN c.seen : c.seen[i].piece \in Genuine(id)
  <2> SUFFICES ASSUME NEW i \in DOMAIN c.seen
               PROVE  c.seen[i].piece \in Genuine(id)
    OBVIOUS
  <2>1. c.seen[i] \in Files(Genuine(id), {TRUE})
    BY <1>5
  <2> QED
    BY <2>1 DEF Files, File
<1>10. pieces \in Seq(Genuine(id))
  BY <1>5, <1>6, <1>9
<1>11. ASSUME backend = "file", NEW p \in Pieces(t)
       PROVE  \E k \in DOMAIN pieces : p = pieces[k]
  <2>1. PICK w \in Wholeness : File(p, w) \in c.from
    BY <1>1, <1>2, <1>11, Zenon DEF Loading, InFile
  <2>2. PICK k \in DOMAIN c.seen : File(p, w) = c.seen[k]
    BY <1>2, <2>1 DEF S!LoadEnds, S!Seen
  <2> QED
    BY <1>6, <2>2 DEF File
<1>12. /\ Genuine(execution_id[t])' = Genuine(id) /\ Pieces(t)' = Pieces(t)
       /\ Answered(t)' /\ execution_id'[t] = id /\ progress'[t].stored = Len(Services[t])
  BY <1>1, <1>2, SameSessions, Zenon DEF Loading
<1>13. call'[t].pieces = pieces
  BY <1>8
<1>14. Loaded(t)'
  BY <1>3, <1>7, <1>8, <1>10, <1>11, <1>12, <1>13 DEF Loaded
<1> QED
  BY <1>4, <1>14, CallInv, Zenon DEF Calling

LEMMA TakesInv ==
    ASSUME TestInv, NEW t \in Testers, TakesAnswer(t)
    PROVE  TestInv'
<1>1. /\ progress[t].report = "pending"
      /\ UNCHANGED <<session, backend, dirs, stored, up, execution_id>>
      /\ t \in DOMAIN call /\ t \in DOMAIN progress
      /\ progress[t] \in [stored : Nat, report : {"pending", "failed", "complete"}]
      /\ Streaming(t) /\ Calling(t) /\ Kept(t)
  BY DEF TestInv, TestTyped, TakesAnswer
<1>2. Steady /\ Retained
  BY <1>1 DEF Steady, Retained
<1>3. Streaming(t)'
  BY <1>1, StreamStays
<1>4. (\A f \in stored : f \in Files(Genuine(f.piece.id), Wholeness))'
  BY <1>1, <1>2, StoredStays DEF TestInv, TestTyped
<1>5. CASE /\ call' = call
           /\ \/ progress' = [progress EXCEPT ![t].report = "failed"]
              \/ /\ call[t].pc = "done" /\ call[t].status = "ok"
                 /\ ~(progress[t].stored < Len(Services[t]))
                 /\ progress' = [progress EXCEPT ![t].report = "complete"]
  <2>1. /\ progress' \in [Testers -> [stored : Nat, report : {"pending", "failed", "complete"}]]
        /\ \A u \in Testers \ {t} : progress'[u] = progress[u]
        /\ progress'[t].stored = progress[t].stored
        /\ progress'[t].report \in {"failed", "complete"}
        /\ progress'[t].report = "complete" => /\ call[t].pc = "done" /\ call[t].status = "ok"
                                              /\ ~(progress[t].stored < Len(Services[t]))
    <3>1. progress \in [Testers -> [stored : Nat, report : {"pending", "failed", "complete"}]]
      BY DEF TestInv, TestTyped
    <3>2. CASE progress' = [progress EXCEPT ![t].report = "failed"]
      BY <1>1, <3>1, <3>2
    <3>3. CASE progress' = [progress EXCEPT ![t].report = "complete"]
      BY <1>1, <1>5, <3>1, <3>3
    <3> QED
      BY <1>5, <3>2, <3>3
  <2>2. TestTyped'
    BY <1>1, <1>4, <1>5, <2>1, Zenon DEF TestInv, TestTyped
  <2>3. Kept(t)'
    BY <1>1, <1>2, <2>1, KeptStays, Zenon
  <2>4. call[t] = S!NoCall \/ Acknowledged(t) \/ Loaded(t)
    <3>1. ~Storing(t) /\ ~Loading(t)
      <4>1. \/ session[t].pc = "done" /\ session[t].status # "ok"
            \/ call[t].pc = "done"
        BY DEF TakesAnswer
      <4>2. CASE session[t].pc = "done" /\ session[t].status # "ok"
        BY <4>2 DEF Storing, Loading, Answered
      <4>3. CASE call[t].pc = "done"
        BY <4>3 DEF Storing, Loading
      <4> QED
        BY <4>1, <4>2, <4>3
    <3> QED
      BY <1>1, <3>1 DEF Calling
  <2>5. Calling(t)'
    <3>1. CASE call[t] = S!NoCall
      BY <1>5, <3>1 DEF Calling, S!NoCall
    <3>2. CASE Loaded(t)
      BY <1>1, <1>2, <1>5, <2>1, <3>2, LoadStays DEF Calling
    <3>3. CASE Acknowledged(t) /\ call[t].status = "ok"
      <4>1. Answered(t)
        BY <3>3 DEF Acknowledged
      <4>2. Answered(t)' /\ Piece(t, progress[t].stored + 1)' = Piece(t, progress[t].stored + 1)
        BY <1>2, <2>1, <4>1, AnswersStay
      <4>3. Acknowledged(t)'
        BY <1>1, <1>5, <2>1, <3>3, <4>2, Zenon DEF Acknowledged, InFile, Wholeness
      <4> QED
        BY <4>3 DEF Calling
    <3>4. CASE Acknowledged(t) /\ call[t].status # "ok"
      <4>1. Acknowledged(t)'
        BY <1>5, <3>4 DEF Acknowledged
      <4> QED
        BY <4>1 DEF Calling
    <3> QED
      BY <2>4, <3>1, <3>2, <3>3, <3>4
  <2>6. ASSUME progress'[t].report = "complete"
        PROVE  Loaded(t)' /\ call'[t].status = "ok"
    <3>1. ~Acknowledged(t) /\ call[t] # S!NoCall
      BY <2>1, <2>6 DEF Acknowledged, S!NoCall
    <3> QED
      BY <1>1, <1>2, <1>5, <2>1, <2>4, <2>6, <3>1, LoadStays, Zenon
  <2> QED
    BY <1>1, <1>2, <1>3, <1>5, <2>1, <2>2, <2>3, <2>5, <2>6, OthersStay, Zenon
<1>6. CASE /\ call[t].pc = "done" /\ call[t].status = "ok"
           /\ progress[t].stored < Len(Services[t])
           /\ progress' = [progress EXCEPT ![t].stored = @ + 1]
           /\ call' = [call EXCEPT ![t] = S!NoCall]
  <2>1. /\ progress' \in [Testers -> [stored : Nat, report : {"pending", "failed", "complete"}]]
        /\ \A u \in Testers \ {t} : progress'[u] = progress[u] /\ call'[u] = call[u]
        /\ progress'[t].stored = progress[t].stored + 1
        /\ progress'[t].report = "pending"
        /\ call'[t] = S!NoCall /\ call' = [u \in Testers |-> call'[u]]
    <3>1. /\ progress \in [Testers -> [stored : Nat, report : {"pending", "failed", "complete"}]]
          /\ call = [u \in Testers |-> call[u]]
      BY DEF TestInv, TestTyped
    <3>2. /\ call'[t] = S!NoCall /\ call' = [u \in Testers |-> call'[u]]
          /\ \A u \in Testers \ {t} : call'[u] = call[u]
      BY <1>6, <3>1, Zenon
    <3>3. /\ progress' \in [Testers -> [stored : Nat, report : {"pending", "failed", "complete"}]]
          /\ \A u \in Testers \ {t} : progress'[u] = progress[u]
          /\ progress'[t].stored = progress[t].stored + 1
          /\ progress'[t].report = "pending"
      <4>1. PICK p, q : p = progress /\ q = progress'
        BY Zenon
      <4>2. /\ p \in [Testers -> [stored : Nat, report : {"pending", "failed", "complete"}]]
            /\ q = [p EXCEPT ![t].stored = @ + 1] /\ p[t].report = "pending"
        BY <1>1, <1>6, <3>1, <4>1, Zenon
      <4>3. /\ q \in [Testers -> [stored : Nat, report : {"pending", "failed", "complete"}]]
            /\ \A u \in Testers \ {t} : q[u] = p[u]
            /\ q[t].stored = p[t].stored + 1
            /\ q[t].report = p[t].report
        BY <4>2, OneMoreStored
      <4> QED
        BY <4>1, <4>2, <4>3, Zenon
    <3> QED
      BY <3>2, <3>3
  <2>2. TestTyped'
    BY <1>1, <1>4, <2>1 DEF TestInv, TestTyped
  <2>3. Acknowledged(t)
    <3>1. ~Loaded(t)
      BY <1>1, <1>6, ServicesTyped DEF Loaded
    <3> QED
      BY <1>6, <3>1, CallPhases
  <2>4. Answered(t) /\ (backend = "file" => InFile(Piece(t, progress[t].stored + 1), stored))
    BY <1>6, <2>3 DEF Acknowledged
  <2>5. Answered(t)' /\ \A i : Piece(t, i)' = Piece(t, i)
    BY <1>2, <2>4, AnswersStay
  <2>6. 1..(progress[t].stored + 1) = (1..progress[t].stored) \union {progress[t].stored + 1}
    BY <1>1
  <2>7. backend = "file" => \A i \in 1..(progress[t].stored + 1) : InFile(Piece(t, i), stored)
    BY <1>1, <2>4, <2>6 DEF Kept
  <2>8. progress[t].stored + 1 <= Len(Services[t])
    BY <1>1, <1>6, ServicesTyped
  <2>9. Kept(t)'
    BY <1>1, <2>1, <2>5, <2>7, <2>8, Zenon DEF Kept, InFile, Wholeness
  <2>10. Calling(t)'
    BY <2>1 DEF Calling, S!NoCall
  <2> QED
    BY <1>1, <1>2, <1>3, <2>1, <2>2, <2>9, <2>10, OthersStay
<1> QED
  BY <1>5, <1>6 DEF TakesAnswer, Report

LEMMA FaultsInv ==
    ASSUME TestInv, SinkFaults
    PROVE  TestInv'
<1>1. /\ UNCHANGED <<session, execution_id, progress, backend>>
      /\ stored' \subseteq stored
      /\ backend = "file" => stored' = stored
  BY DEF SinkFaults, S!Crashes, S!Restarts
<1>2. Steady /\ Retained
  BY <1>1 DEF Steady, Retained
<1>3. /\ call' = [t \in Testers |-> call'[t]]
      /\ \A t \in Testers :
             \/ call'[t] = call[t]
             \/ call'[t] = S!Ended("unavailable") /\ call[t].pc \in {"writing", "renaming", "loading"}
  <2>1. CASE S!Restarts
    BY <2>1 DEF S!Restarts, TestInv, TestTyped
  <2>2. CASE S!Crashes
    BY <2>2 DEF S!Crashes
  <2> QED
    BY <2>1, <2>2 DEF SinkFaults
<1>4. TestTyped'
  <2>1. (\A f \in stored : f \in Files(Genuine(f.piece.id), Wholeness))'
    BY <1>1, <1>2, StoredStays DEF TestInv, TestTyped
  <2> QED
    BY <1>1, <1>3, <2>1 DEF TestInv, TestTyped
<1>5. ASSUME NEW t \in Testers
      PROVE  /\ Streaming(t)' /\ Calling(t)' /\ Kept(t)'
             /\ progress'[t].report = "complete" => Loaded(t)' /\ call'[t].status = "ok"
  <2>1. /\ progress'[t] = progress[t] /\ progress[t].stored \in Nat /\ session'[t] = session[t]
        /\ Streaming(t) /\ Calling(t) /\ Kept(t)
    BY <1>1 DEF TestInv, TestTyped
  <2>2. Streaming(t)' /\ Kept(t)'
    BY <1>2, <2>1, StreamStays, KeptStays
  <2>3. Calling(t)'
    <3>1. CASE call'[t] = call[t]
      BY <1>2, <2>1, <3>1, CallStays
    <3>2. CASE call'[t] = S!Ended("unavailable")
      BY <3>2, EndedCalls, Zenon
    <3> QED
      BY <1>3, <3>1, <3>2
  <2>4. ASSUME progress'[t].report = "complete"
        PROVE  Loaded(t)' /\ call'[t].status = "ok"
    <3>1. Loaded(t) /\ call[t].status = "ok"
      BY <2>1, <2>4 DEF TestInv
    <3>2. call[t].pc = "done"
      BY <3>1 DEF Loaded
    <3>3. call'[t] = call[t]
      BY <1>3, <3>2
    <3> QED
      BY <1>1, <1>2, <2>1, <3>1, <3>3, LoadStays, Zenon
  <2> QED
    BY <2>2, <2>3, <2>4
<1> QED
  BY <1>4, <1>5 DEF TestInv

LEMMA TestNextInv == ASSUME TestInv, [TestNext]_testVars PROVE TestInv'
<1>1. CASE UNCHANGED testVars
  <2>1. Steady /\ Retained /\ UNCHANGED <<session, call, progress, stored>>
    BY <1>1 DEF testVars, sinkVars, Steady, Retained
  <2>2. TestTyped'
    <3>1. (\A f \in stored : f \in Files(Genuine(f.piece.id), Wholeness))'
      BY <2>1, StoredStays, Zenon DEF TestInv, TestTyped
    <3> QED
      BY <2>1, <3>1 DEF TestInv, TestTyped
  <2>3. ASSUME NEW t \in Testers
        PROVE  /\ Streaming(t)' /\ Calling(t)' /\ Kept(t)'
               /\ progress'[t].report = "complete" => Loaded(t)' /\ call'[t].status = "ok"
    <3>1. /\ progress'[t] = progress[t] /\ progress[t].stored \in Nat /\ session'[t] = session[t]
          /\ call'[t] = call[t] /\ Streaming(t) /\ Calling(t) /\ Kept(t)
          /\ progress[t].report = "complete" => Loaded(t) /\ call[t].status = "ok"
      BY <2>1 DEF TestInv, TestTyped
    <3> QED
      BY <2>1, <3>1, StreamStays, CallStays, KeptStays, LoadStays DEF Retained
  <2> QED
    BY <2>2, <2>3 DEF TestInv
<1>2. CASE SinkFaults
  BY <1>2, FaultsInv
<1>3. ASSUME NEW t \in Testers,
             Distributes(t) \/ Stores(t) \/ Queries(t) \/ SinkWorks(t) \/ TakesAnswer(t)
      PROVE  TestInv'
  <2>1. CASE SinkWorks(t)
    BY <2>1, WritesInv, RenamesInv, ReadsInv, EndsInv DEF SinkWorks, S!SinkStep
  <2> QED
    BY <1>3, <2>1, DistributesInv, StoresInv, QueriesInv, TakesInv
<1> QED
  BY <1>1, <1>2, <1>3, Zenon DEF TestNext

LEMMA TestInitInv == TestInit => TestInv
<1> SUFFICES ASSUME TestInit PROVE TestInv
  OBVIOUS
<1>1. /\ session = [t \in Testers |-> [pc |-> "none"]]
      /\ call = [t \in Testers |-> S!NoCall]
      /\ progress = [t \in Testers |-> [stored |-> 0, report |-> "pending"]]
      /\ stored = {}
  BY DEF TestInit, D!Init, S!Init
<1>2. TestTyped
  BY <1>1 DEF TestTyped
<1>3. ASSUME NEW t \in Testers
      PROVE  /\ Streaming(t) /\ Calling(t) /\ Kept(t)
             /\ progress[t].report # "complete"
  <2>1. session[t] = [pc |-> "none"] /\ call[t] = S!NoCall
        /\ progress[t] = [stored |-> 0, report |-> "pending"]
    BY <1>1
  <2>2. Kept(t)
    BY <2>1, ServicesTyped DEF Kept
  <2> QED
    BY <2>1, <2>2 DEF Streaming, Calling
<1> QED
  BY <1>2, <1>3 DEF TestInv

LEMMA TestInvariant == TestSpec => []TestInv
BY TestInitInv, TestNextInv, PTL DEF TestSpec

-----------------------------------------------------------------------------
(* Induction, by way of a least counterexample.                            *)

LOCAL INSTANCE WellFoundedInduction

\* A nonempty set of naturals has a least element.
LEMMA LeastElement ==
    ASSUME NEW T \in SUBSET Nat, T # {}
    PROVE  \E m \in T : \A k \in T : m <= k
<1>1. IsWellFoundedOn(OpToRel(<, Nat), Nat)
  BY NatLessThanWellFounded, Zenon
<1>2. PICK m \in T : \A k \in T : ~(<<k, m>> \in OpToRel(<, Nat))
  BY <1>1, WFMin, Zenon
<1>3. m \in Nat /\ \A k \in T : k \in Nat /\ ~(k < m)
  BY <1>2, Zenon DEF OpToRel
<1>4. \A k \in T : m <= k
  BY <1>3
<1> QED
  BY <1>4

\* What holds of the first index and passes from each index to the next holds of all.
LEMMA Inductive ==
    ASSUME NEW first \in Nat, NEW last \in Nat, NEW T,
           first \in T,
           \A k \in first..last : k \in T /\ k < last => k + 1 \in T
    PROVE  \A k \in first..last : k \in T
<1> SUFFICES ASSUME NEW c \in first..last, c \notin T
             PROVE  FALSE
  OBVIOUS
<1> DEFINE U == {k \in first..last : k \notin T}
<1>1. PICK m \in U : \A k \in U : m <= k
  <2>1. U \in SUBSET Nat /\ c \in U
    OBVIOUS
  <2> QED
    BY <2>1, LeastElement, Zenon
<1>2. m \in first..last /\ m # first /\ m - 1 \in first..last /\ m - 1 < last
  BY <1>1
<1>3. m - 1 \in T
  BY <1>1, <1>2
<1>4. (m - 1) + 1 \in T
  BY <1>2, <1>3
<1>5. (m - 1) + 1 = m
  BY <1>2
<1> QED
  BY <1>1, <1>4, <1>5

-----------------------------------------------------------------------------
(* The merge of execution responses.                                       *)

\* What mergeExecutionResponses starts from, and that its rounds give each other.
NothingMerged(responses) ==
    [status |-> IF responses = <<>> THEN "not_found" ELSE "ok",
     has_options |-> FALSE, options |-> "none", version |-> "none", results |-> {}, error |-> FALSE]

Rounds(f, id, responses, n) ==
    f = [i \in 0..n |-> IF i = 0 THEN NothingMerged(responses)
                        ELSE S!mergeResponse(id, f[i - 1], responses[i])]

\* The rounds can be carried on for as long as there are responses.
LEMMA RoundsExist ==
    ASSUME NEW id, NEW responses, Len(responses) \in Nat
    PROVE  \E f : Rounds(f, id, responses, Len(responses))
<1> DEFINE T == {n \in Nat : \E f : Rounds(f, id, responses, n)}
<1>1. 0 \in T
  <2> DEFINE f == [i \in 0..0 |-> NothingMerged(responses)]
  <2>1. f = [i \in 0..0 |-> IF i = 0 THEN NothingMerged(responses)
                            ELSE S!mergeResponse(id, f[i - 1], responses[i])]
    OBVIOUS
  <2>2. Rounds(f, id, responses, 0)
    BY <2>1 DEF Rounds
  <2> QED
    BY <2>2
<1>2. ASSUME NEW n \in 0..Len(responses), n \in T
      PROVE  n + 1 \in T
  <2>1. PICK f : Rounds(f, id, responses, n)
    BY <1>2, Zenon
  <2> DEFINE g == [i \in 0..n + 1 |-> IF i <= n THEN f[i]
                                      ELSE S!mergeResponse(id, f[n], responses[n + 1])]
  <2>2. ASSUME NEW i \in 0..n + 1
        PROVE  g[i] = IF i = 0 THEN NothingMerged(responses)
                      ELSE S!mergeResponse(id, g[i - 1], responses[i])
    <3>1. CASE i = 0
      BY <3>1, <2>1 DEF Rounds
    <3>2. CASE i # 0 /\ i <= n
      <4>1. i \in 0..n /\ i - 1 \in 0..n /\ i - 1 \in 0..n + 1 /\ i - 1 <= n
        BY <3>2
      <4>2. f[i] = S!mergeResponse(id, f[i - 1], responses[i])
        BY <4>1, <3>2, <2>1, Zenon DEF Rounds
      <4>3. g[i] = f[i] /\ g[i - 1] = f[i - 1]
        BY <4>1
      <4> QED
        BY <4>2, <4>3, <3>2
    <3>3. CASE i = n + 1
      <4>1. n \in 0..n + 1 /\ n <= n /\ ~(n + 1 <= n) /\ i - 1 = n /\ i # 0 /\ n + 1 \in 0..n + 1
        BY <3>3
      <4>2. g[n] = f[n] /\ g[n + 1] = S!mergeResponse(id, f[n], responses[n + 1])
        BY <4>1
      <4> QED
        BY <4>1, <4>2, <3>3
    <3> QED
      BY <3>1, <3>2, <3>3
  <2>3. g = [i \in 0..n + 1 |-> IF i = 0 THEN NothingMerged(responses)
                                ELSE S!mergeResponse(id, g[i - 1], responses[i])]
    <3> HIDE DEF g
    <3>1. g = [i \in 0..n + 1 |-> g[i]]
      BY DEF g
    <3> QED
      BY <3>1, <2>2, Zenon
  <2>4. Rounds(g, id, responses, n + 1)
    BY <2>3 DEF Rounds
  <2> QED
    BY <2>4
<1> HIDE DEF T
<1>3. \A k \in 0..Len(responses) : k \in T
  BY <1>1, <1>2, Inductive, Zenon
<1>4. Len(responses) \in T
  BY <1>3
<1> QED
  BY <1>4 DEF T

\* So the merge is what the last round gives.
LEMMA MergeRounds ==
    ASSUME NEW id, NEW responses, Len(responses) \in Nat
    PROVE  \E f : /\ Rounds(f, id, responses, Len(responses))
                  /\ S!mergeExecutionResponses(id, responses) = f[Len(responses)]
<1> DEFINE n == Len(responses)
<1> DEFINE f == CHOOSE h : h = [i \in 0..n |-> IF i = 0 THEN NothingMerged(responses)
                                               ELSE S!mergeResponse(id, h[i - 1], responses[i])]
<1>1. \E h : h = [i \in 0..n |-> IF i = 0 THEN NothingMerged(responses)
                                 ELSE S!mergeResponse(id, h[i - 1], responses[i])]
  <2>1. PICK h : Rounds(h, id, responses, Len(responses))
    BY RoundsExist
  <2> QED
    BY <2>1, Zenon DEF Rounds
<1>2. f = [i \in 0..n |-> IF i = 0 THEN NothingMerged(responses)
                          ELSE S!mergeResponse(id, f[i - 1], responses[i])]
  BY <1>1, Zenon
<1>3. S!mergeExecutionResponses(id, responses) = f[Len(responses)]
  BY DEF S!mergeExecutionResponses, NothingMerged
<1>4. PICK g : g = f
  OBVIOUS
<1>5. g = [i \in 0..Len(responses) |-> IF i = 0 THEN NothingMerged(responses)
                                      ELSE S!mergeResponse(id, g[i - 1], responses[i])]
  BY <1>2, <1>4, Zenon
<1>6. S!mergeExecutionResponses(id, responses) = g[Len(responses)]
  BY <1>3, <1>4, Zenon
<1> QED
  BY <1>5, <1>6, Zenon DEF Rounds

\* All of the first k responses agree with the first.
Agree(responses, k) ==
    \A i \in 1..k : /\ responses[i].options = responses[1].options
                    /\ responses[i].version = responses[1].version

\* What is merged after k rounds, k > 0: an error if a response disagreed with the first, and
\* otherwise the results of all of them, with an error if one of them has one.
MergedSoFar(m, responses, k) ==
    /\ m \in [status : {"ok", "internal"}, has_options : {TRUE}, options : {responses[1].options},
             version : {responses[1].version},
             results : SUBSET UNION {responses[i].results : i \in DOMAIN responses}, error : BOOLEAN]
    /\ m.status = "ok" <=> Agree(responses, k)
    /\ m.status = "ok" =>
           /\ m.results = UNION {responses[i].results : i \in 1..k}
           /\ m.error <=> \E i \in 1..k : responses[i].error

LEMMA FirstRound ==
    ASSUME NEW id, NEW P, NEW responses \in Seq(P), Len(responses) > 0,
           \A p \in P : p.id = id /\ p.error \in BOOLEAN
    PROVE  MergedSoFar(S!mergeResponse(id, NothingMerged(responses), responses[1]), responses, 1)
<1>1. PICK m : m = S!mergeResponse(id, NothingMerged(responses), responses[1])
  OBVIOUS
<1>2. 1 \in DOMAIN responses /\ responses[1] \in P /\ responses # <<>>
  OBVIOUS
<1>3. responses[1].id = id /\ responses[1].error \in BOOLEAN
  BY <1>2
<1>4. m = [status |-> "ok", has_options |-> TRUE, options |-> responses[1].options,
           version |-> responses[1].version, results |-> responses[1].results,
           error |-> FALSE \/ responses[1].error]
  BY <1>1, <1>2, <1>3, Zenon DEF S!mergeResponse, S!mergeOutput, NothingMerged
<1>5. (FALSE \/ responses[1].error) = responses[1].error
  BY <1>3
<1>6. 1..1 = {1}
  OBVIOUS
<1>7. UNION {responses[i].results : i \in 1..1} = responses[1].results
  BY <1>6
<1>8. Agree(responses, 1)
  BY <1>6 DEF Agree
<1>9. responses[1].results \in SUBSET UNION {responses[i].results : i \in DOMAIN responses}
  BY <1>2, Zenon
<1>10. MergedSoFar(m, responses, 1)
  BY <1>3, <1>4, <1>5, <1>6, <1>7, <1>8, <1>9, Zenon DEF MergedSoFar
<1> QED
  BY <1>1, <1>10

LEMMA LaterRound ==
    ASSUME NEW id, NEW P, NEW responses \in Seq(P),
           \A p \in P : p.id = id /\ p.error \in BOOLEAN,
           NEW k \in 1..Len(responses), k < Len(responses),
           NEW m, MergedSoFar(m, responses, k)
    PROVE  MergedSoFar(S!mergeResponse(id, m, responses[k + 1]), responses, k + 1)
<1> DEFINE r == responses[k + 1]
           all == UNION {responses[i].results : i \in DOMAIN responses}
           next == S!mergeResponse(id, m, r)
<1>1. k + 1 \in DOMAIN responses /\ r \in P
  OBVIOUS
<1>2. r.id = id /\ r.error \in BOOLEAN /\ r.results \subseteq all
  BY <1>1
<1>3. m \in [status : {"ok", "internal"}, has_options : {TRUE}, options : {responses[1].options},
            version : {responses[1].version}, results : SUBSET all, error : BOOLEAN]
  BY Zenon DEF MergedSoFar
<1>4. 1..(k + 1) = (1..k) \union {k + 1}
  OBVIOUS
<1>5. Agree(responses, k + 1) <=> /\ Agree(responses, k)
                                  /\ r.options = responses[1].options
                                  /\ r.version = responses[1].version
  BY <1>4 DEF Agree
<1>6. next.error = (m.error \/ r.error)
  <2> HIDE DEF r
  <2> QED
    BY <1>2, <1>3 DEF S!mergeResponse, S!mergeOutput
<1>7. next \in [status : {"ok", "internal"}, has_options : {TRUE}, options : {responses[1].options},
               version : {responses[1].version}, results : SUBSET all, error : BOOLEAN]
  <2> HIDE DEF r, all
  <2> QED
    BY <1>2, <1>3, Zenon DEF S!mergeResponse, S!mergeOutput
<1>8. next.status = "ok" <=> /\ m.status = "ok"
                             /\ r.options = responses[1].options
                             /\ r.version = responses[1].version
  <2> HIDE DEF r, all
  <2> QED
    BY <1>2, <1>3, Zenon DEF S!mergeResponse, S!mergeOutput
<1>9. next.status = "ok" => next.results = m.results \union r.results
  <2> HIDE DEF r, all
  <2> QED
    BY <1>2, <1>3, Zenon DEF S!mergeResponse, S!mergeOutput
<1>10. UNION {responses[i].results : i \in 1..(k + 1)} =
           (UNION {responses[i].results : i \in 1..k}) \union r.results
  BY <1>4
<1>11. (\E i \in 1..(k + 1) : responses[i].error) <=>
           (\E i \in 1..k : responses[i].error) \/ r.error
  BY <1>4, Zenon
<1> HIDE DEF next
<1>12. next.status = "ok" <=> Agree(responses, k + 1)
  BY <1>5, <1>8, Zenon DEF MergedSoFar
<1>13. next.status = "ok" => next.results = UNION {responses[i].results : i \in 1..(k + 1)}
  BY <1>8, <1>9, <1>10, Zenon DEF MergedSoFar
<1>14. next.status = "ok" => (next.error <=> \E i \in 1..(k + 1) : responses[i].error)
  BY <1>6, <1>8, <1>11 DEF MergedSoFar
<1>15. MergedSoFar(next, responses, k + 1)
  BY <1>7, <1>12, <1>13, <1>14, Zenon DEF MergedSoFar
<1> QED
  BY <1>15 DEF next

\* What the merge gives for responses that are all of the execution asked for.
LEMMA MergeIsFaithful ==
    ASSUME NEW id, NEW P, NEW responses \in Seq(P),
           \A p \in P : p.id = id /\ p.error \in BOOLEAN
    PROVE  LET m == S!mergeExecutionResponses(id, responses)
           IN IF responses = <<>> THEN m.status = "not_found"
              ELSE MergedSoFar(m, responses, Len(responses))
<1> DEFINE n == Len(responses)
<1>1. n \in Nat
  OBVIOUS
<1>2. PICK f : /\ Rounds(f, id, responses, n)
               /\ S!mergeExecutionResponses(id, responses) = f[n]
  BY <1>1, MergeRounds, Zenon
<1>3. CASE responses = <<>>
  <2>1. n = 0 /\ 0 \in 0..n
    BY <1>3
  <2>2. f[n] = NothingMerged(responses)
    BY <2>1, <1>2, Zenon DEF Rounds
  <2> QED
    BY <2>2, <1>2, <1>3 DEF NothingMerged
<1>4. CASE responses # <<>>
  <2> DEFINE T == {k \in 1..n : MergedSoFar(f[k], responses, k)}
  <2>1. n > 0
    BY <1>4
  <2>2. 1 \in T
    <3>1. f[0] = NothingMerged(responses)
      BY <1>1, <1>2 DEF Rounds
    <3>2. 1 \in 0..n /\ 1 # 0 /\ 1 - 1 = 0
      BY <1>1, <2>1
    <3>3. f[1] = S!mergeResponse(id, f[0], responses[1])
      BY <3>2, <1>2 DEF Rounds
    <3>4. MergedSoFar(S!mergeResponse(id, NothingMerged(responses), responses[1]), responses, 1)
      BY <2>1, FirstRound, Zenon
    <3>5. MergedSoFar(f[1], responses, 1)
      BY <3>1, <3>3, <3>4, Zenon
    <3> QED
      BY <3>5, <1>1, <2>1
  <2>3. ASSUME NEW k \in 1..n, k \in T, k < n
        PROVE  k + 1 \in T
    <3>1. k + 1 \in 0..n /\ k + 1 # 0 /\ (k + 1) - 1 = k /\ k + 1 \in 1..n
      BY <2>3, <1>1
    <3>2. f[k + 1] = S!mergeResponse(id, f[k], responses[k + 1])
      BY <3>1, <1>2 DEF Rounds
    <3>3. MergedSoFar(f[k], responses, k)
      BY <2>3
    <3>4. MergedSoFar(S!mergeResponse(id, f[k], responses[k + 1]), responses, k + 1)
      BY <3>3, <2>3, LaterRound, Zenon
    <3> QED
      BY <3>1, <3>2, <3>4, Zenon
  <2> HIDE DEF T
  <2>4. \A k \in 1..n : k \in T
    BY <1>1, <2>2, <2>3, Inductive, Zenon
  <2>5. n \in T
    BY <1>1, <2>1, <2>4
  <2> QED
    BY <1>2, <1>4, <2>5 DEF T
<1> QED
  BY <1>3, <1>4

-----------------------------------------------------------------------------
(* What the tester is told.                                                *)

\* A load never meets a piece that is still being written and an acknowledged piece is never
\* gone (FileSinkImpl::StoreExecutionResultPiece), as long as closing a file loses no data.
THEOREM AcknowledgedIsKept == ASSUME ~LateWriteErrors PROVE TestSpec => []StoredPiecesAreWhole
<1>1. TestInv => StoredPiecesAreWhole
  <2> SUFFICES ASSUME TestInv PROVE StoredPiecesAreWhole
    OBVIOUS
  <2>1. ASSUME NEW t \in Testers, call[t].pc = "done"
        PROVE  call[t].status # "corrupt"
    <3>1. CASE Acknowledged(t)
      BY <3>1 DEF Acknowledged
    <3>2. CASE Loaded(t)
      <4>1. /\ call[t].pieces \in Seq(Genuine(execution_id[t]))
            /\ call[t].status = S!mergeExecutionResponses(execution_id[t], call[t].pieces).status
        BY <3>2 DEF Loaded
      <4>2. \A p \in Genuine(execution_id[t]) : p.id = execution_id[t] /\ p.error \in BOOLEAN
        BY GenuineFacts DEF TestInv
      <4> QED
        BY <4>1, <4>2, MergeIsFaithful, Zenon DEF MergedSoFar
    <3> QED
      BY <2>1, <3>1, <3>2, CallPhases, Zenon
  <2>2. ASSUME NEW t \in Testers, backend = "file", NEW i \in 1..progress[t].stored
        PROVE  [piece |-> Piece(t, i), whole |-> TRUE] \in stored
    <3>1. InFile(Piece(t, i), stored)
      BY <2>2 DEF TestInv, Kept
    <3> QED
      BY <3>1 DEF InFile, File, Wholeness
  <2> QED
    BY <2>1, <2>2 DEF StoredPiecesAreWhole
<1> QED
  BY <1>1, TestInvariant, PTL

\* The merge refuses pieces whose options or versions differ, and no others, in whatever
\* order the directory iterator found them (mergeOutput, mergeExecutionResponses).
THEOREM DivergenceIsRefused == TestSpec => []MergeRefusesDivergence
<1>1. TestInv => MergeRefusesDivergence
  <2> SUFFICES ASSUME TestInv, NEW t \in Testers,
                      call[t].pc = "done", "pieces" \in DOMAIN call[t], call[t].pieces # <<>>
               PROVE  LET all == {call[t].pieces[i] : i \in DOMAIN call[t].pieces}
                      IN call[t].status = "ok" <=>
                             \A p, q \in all : p.options = q.options /\ p.version = q.version
    BY DEF MergeRefusesDivergence
  <2>1. ~Acknowledged(t)
    BY DEF Acknowledged
  <2>2. Loaded(t)
    BY <2>1, CallPhases, Zenon
  <2>3. PICK pieces, id, m : /\ pieces = call[t].pieces /\ id = execution_id[t]
                             /\ m = S!mergeExecutionResponses(id, pieces)
    <3>1. PICK pieces, id : pieces = call[t].pieces /\ id = execution_id[t]
      BY Zenon
    <3>2. PICK m : m = S!mergeExecutionResponses(id, pieces)
      OBVIOUS
    <3> QED
      BY <3>1, <3>2
  <2>4. pieces \in Seq(Genuine(id)) /\ call[t].status = m.status
    BY <2>2, <2>3 DEF Loaded
  <2>5. \A p \in Genuine(id) : p.id = id /\ p.error \in BOOLEAN
    BY GenuineFacts, Zenon DEF TestInv
  <2>6. MergedSoFar(m, pieces, Len(pieces))
    BY <2>3, <2>4, <2>5, MergeIsFaithful, Zenon
  <2>7. m.status = "ok" <=> Agree(pieces, Len(pieces))
    BY <2>6, Zenon DEF MergedSoFar
  <2>8. DOMAIN pieces = 1..Len(pieces) /\ 1 \in DOMAIN pieces
    BY <2>3, <2>4
  <2>9. Agree(pieces, Len(pieces)) <=>
            \A i, k \in DOMAIN pieces : /\ pieces[i].options = pieces[k].options
                                        /\ pieces[i].version = pieces[k].version
    BY <2>8, Zenon DEF Agree
  <2> QED
    BY <2>3, <2>4, <2>7, <2>9
<1> QED
  BY <1>1, TestInvariant, PTL

\* A report without an error is the whole of the tester's part: the pieces of all services it
\* named, nothing of another execution except through a service that both use, and an error
\* if one of them had one (handleRequest, StoreExecutionResultPiece, LoadExecutionResult,
\* mergeExecutionResponses).
THEOREM ReportsAreComplete == TestSpec => []ReportIsComplete
<1>1. TestInv => ReportIsComplete
  <2> SUFFICES ASSUME TestInv, NEW t \in Testers,
                      progress[t].report = "complete", backend = "file"
               PROVE  LET merged == call[t].merged IN
                      /\ \A i \in DOMAIN Services[t] :
                             /\ Piece(t, i) \in {call[t].pieces[k] : k \in DOMAIN call[t].pieces}
                             /\ Piece(t, i).by = Services[t][i]
                             /\ Piece(t, i).results \subseteq merged.results
                      /\ \A r \in merged.results :
                             \E u \in Parts(t) : r[1] \in Named(u) /\ r[2] \in Sharers(r[1])
                      /\ (\E i \in DOMAIN Services[t] : Piece(t, i).error) => merged.error
    BY Zenon DEF ReportIsComplete
  <2>1. Loaded(t) /\ call[t].status = "ok" /\ Streaming(t)
    BY Zenon DEF TestInv
  <2>2. PICK pieces, id, m : /\ pieces = call[t].pieces /\ id = execution_id[t]
                             /\ m = S!mergeExecutionResponses(id, pieces)
    <3>1. PICK pieces, id : pieces = call[t].pieces /\ id = execution_id[t]
      BY Zenon
    <3>2. PICK m : m = S!mergeExecutionResponses(id, pieces)
      OBVIOUS
    <3> QED
      BY <3>1, <3>2
  <2>3. /\ pieces \in Seq(Genuine(id)) /\ m.status = "ok" /\ call[t].merged = m /\ Answered(t)
        /\ \A p \in Pieces(t) : \E k \in DOMAIN pieces : p = pieces[k]
    BY <2>1, <2>2 DEF Loaded
  <2>4. \A p \in Genuine(id) : p.id = id /\ p.error \in BOOLEAN
    BY GenuineFacts, Zenon DEF TestInv
  <2>5. pieces # <<>>
    BY <2>2, <2>3, <2>4, MergeIsFaithful
  <2>6. MergedSoFar(m, pieces, Len(pieces))
    BY <2>2, <2>3, <2>4, <2>5, MergeIsFaithful
  <2>7. DOMAIN pieces = 1..Len(pieces)
    BY <2>3
  <2>8. /\ m.results = UNION {pieces[k].results : k \in DOMAIN pieces}
        /\ m.error <=> \E k \in DOMAIN pieces : pieces[k].error
    BY <2>3, <2>6, <2>7, Zenon DEF MergedSoFar
  <2>9. ASSUME NEW i \in DOMAIN Services[t]
        PROVE  /\ \E k \in DOMAIN pieces : Piece(t, i) = pieces[k]
               /\ Piece(t, i).by = Services[t][i]
               /\ Piece(t, i).results \subseteq m.results
               /\ Piece(t, i).error => m.error
    <3>1. PICK k \in DOMAIN pieces : Piece(t, i) = pieces[k]
      BY <2>3, Zenon DEF Pieces
    <3>2. Piece(t, i).by = Services[t][i]
      BY <2>1, <2>3, PieceFacts, Zenon
    <3> QED
      BY <2>8, <3>1, <3>2, Zenon
  <2>10. ASSUME NEW r \in m.results
         PROVE  \E u \in Parts(t) : r[1] \in Named(u) /\ r[2] \in Sharers(r[1])
    <3>1. PICK k \in DOMAIN pieces : r \in pieces[k].results
      BY <2>8
    <3>2. pieces[k] \in Genuine(id)
      BY <2>3
    <3> QED
      BY <2>2, <3>1, <3>2, GenuineFacts DEF TestInv, Parts
  <2> QED
    BY <2>2, <2>3, <2>9, <2>10
<1> QED
  BY <1>1, TestInvariant, PTL
=============================================================================
