-------------------------------- MODULE Sink --------------------------------
(***************************************************************************)
(* The sink service: it stores execution responses under an execution id   *)
(* and answers a query with all of them merged into one.  Each caller has  *)
(* one call at the sink at a time, as NighthawkSinkClientImpl makes them;  *)
(* gRPC handles calls of different callers on different threads.           *)
(*                                                                         *)
(* A piece is an ExecutionResponse: who produced it, its execution id,     *)
(* whether it has error_detail, the options and version of its output      *)
(* ("none" when it has no output) and the set of its results.              *)
(***************************************************************************)
EXTENDS Naturals, Sequences, FiniteSets

CONSTANTS
    Callers,
    GoodIds,         \* execution ids that read like a guid
    Backends,        \* of {"file", "memory"}
    LateWriteErrors  \* whether closing a file may lose data unnoticed

VARIABLES
    backend,
    dirs,    \* ids with a directory
    stored,  \* what a load finds: [piece, whole], whole when the content is complete
    call,    \* per caller: the call in progress and how far it is
    up       \* whether the service runs

vars == <<backend, dirs, stored, call, up>>

NoCall == [pc |-> "none"]
Ended(status) == [pc |-> "done", status |-> status]
Load(id, from) ==
    [pc |-> "loading", id |-> id, from |-> from, seen |-> <<>>]

Init ==
    /\ backend \in Backends
    /\ dirs = {}
    /\ stored = {}
    /\ call = [c \in Callers |-> NoCall]
    /\ up = TRUE

To(c, next) == call' = [call EXCEPT ![c] = next]

\* validateKey: the memory sink accepts any key but the empty one.
ValidKey(id) == IF backend = "file" THEN id \in GoodIds ELSE id # ""

(***************************************************************************)
(* StoreExecutionResultPiece.                                              *)
(***************************************************************************)
StoreBegins(c, piece) ==
    /\ call[c] = NoCall
    /\ \/ ~up /\ To(c, Ended("unavailable")) /\ UNCHANGED <<dirs, stored>>
       \/ up /\ ~ValidKey(piece.id) /\ To(c, Ended("invalid")) /\ UNCHANGED <<dirs, stored>>
       \/ /\ up /\ ValidKey(piece.id) /\ backend = "memory"
          /\ stored' = stored \union {[piece |-> piece, whole |-> TRUE]}
          /\ To(c, Ended("ok"))
          /\ UNCHANGED dirs
       \/ /\ up /\ ValidKey(piece.id) /\ backend = "file"
          /\ \/ /\ dirs' = dirs \union {piece.id}
                /\ To(c, [pc |-> "writing", piece |-> piece])
             \/ To(c, Ended("internal")) /\ UNCHANGED dirs   \* create_directories failed
          /\ UNCHANGED stored
    /\ UNCHANGED <<backend, up>>

\* Mutation: the file is written where readers look for it.
WritesTemp_InPlace(c) ==
    /\ up /\ call[c].pc = "writing"
    /\ stored' = stored \union {[piece |-> call[c].piece, whole |-> FALSE]}
    /\ To(c, [pc |-> "renaming", piece |-> call[c].piece, whole |-> TRUE])
    /\ UNCHANGED <<backend, dirs, up>>

\* The stream is written and closed; an error at the close goes unnoticed.
WritesTemp(c) ==
    /\ up /\ call[c].pc = "writing"
    /\ \/ \E whole \in (IF LateWriteErrors THEN BOOLEAN ELSE {TRUE}) :
              To(c, [pc |-> "renaming", piece |-> call[c].piece, whole |-> whole])
       \/ To(c, Ended("internal"))
    /\ UNCHANGED <<backend, dirs, stored, up>>

Renames(c) ==
    /\ up /\ call[c].pc = "renaming"
    /\ \/ /\ stored' = stored \union {[piece |-> call[c].piece, whole |-> call[c].whole]}
          /\ To(c, Ended("ok"))
       \/ To(c, Ended("internal")) /\ UNCHANGED stored
    /\ UNCHANGED <<backend, dirs, up>>

(***************************************************************************)
(* LoadExecutionResult and the merge.                                      *)
(***************************************************************************)
Under(id) == {f \in stored : f.piece.id = id}

\* The query arrives; the directory is opened.
LoadBegins(c, id) ==
    /\ call[c] = NoCall
    /\ To(c, IF ~up THEN Ended("unavailable")
             ELSE IF ~ValidKey(id) THEN Ended("invalid")
             ELSE IF (backend = "file" /\ id \notin dirs) \/ (backend = "memory" /\ Under(id) = {})
                  THEN Ended("not_found")
             ELSE Load(id, Under(id)))
    /\ UNCHANGED <<backend, dirs, stored, up>>

Seen(c) == {call[c].seen[i] : i \in DOMAIN call[c].seen}

\* The directory iterator reaches an entry, in no particular order; one that appeared
\* since the directory was opened may be among them.
LoadReads(c) ==
    /\ up /\ call[c].pc = "loading"
    /\ \E f \in Under(call[c].id) \ Seen(c) :
           /\ backend = "memory" => f \in call[c].from
           /\ To(c, IF f.whole THEN [call[c] EXCEPT !.seen = Append(@, f)]
                    ELSE Ended("corrupt"))
    /\ UNCHANGED <<backend, dirs, stored, up>>

\* Mutation: versions are not compared.
mergeOutput_AnyVersion(target, piece) ==
    IF target.status # "ok" THEN target
    ELSE IF ~target.has_options
         THEN [target EXCEPT !.has_options = TRUE, !.options = piece.options,
                             !.version = piece.version, !.results = piece.results]
    ELSE IF piece.options # target.options
         THEN [target EXCEPT !.status = "internal"]
    ELSE [target EXCEPT !.results = @ \union piece.results]

\* The first output sets options and version, the others must agree; results are appended.
mergeOutput(target, piece) ==
    IF target.status # "ok" THEN target
    ELSE IF ~target.has_options
         THEN [target EXCEPT !.has_options = TRUE, !.options = piece.options,
                             !.version = piece.version, !.results = piece.results]
    ELSE IF piece.options # target.options \/ piece.version # target.version
         THEN [target EXCEPT !.status = "internal"]
    ELSE [target EXCEPT !.results = @ \union piece.results]

\* One round of mergeExecutionResponses' loop.
mergeResponse(id, target, response) ==
    IF response.id # id /\ target.status = "ok" THEN [target EXCEPT !.status = "internal"]
    ELSE mergeOutput([target EXCEPT !.error = @ \/ response.error], response)

mergeExecutionResponses(id, responses) ==
    LET empty == [status |-> IF responses = <<>> THEN "not_found" ELSE "ok",
                  has_options |-> FALSE, options |-> "none", version |-> "none",
                  results |-> {}, error |-> FALSE]
        merged[i \in 0..Len(responses)] ==
            IF i = 0 THEN empty ELSE mergeResponse(id, merged[i - 1], responses[i])
    IN merged[Len(responses)]

\* All entries that were there when the directory was opened have been read.
LoadEnds(c) ==
    /\ up /\ call[c].pc = "loading"
    /\ call[c].from \subseteq Seen(c)
    /\ LET pieces == [i \in DOMAIN call[c].seen |-> call[c].seen[i].piece]
       IN To(c, [pc |-> "done", status |-> mergeExecutionResponses(call[c].id, pieces).status,
                 pieces |-> pieces, merged |-> mergeExecutionResponses(call[c].id, pieces)])
    /\ UNCHANGED <<backend, dirs, stored, up>>

(***************************************************************************)
(* The process may die and be started again; files stay, memory does not.  *)
(***************************************************************************)
Crashes ==
    /\ up
    /\ up' = FALSE
    /\ stored' = IF backend = "file" THEN stored ELSE {}
    /\ call' = [c \in Callers |->
                   IF call[c].pc \in {"writing", "renaming", "loading"}
                   THEN Ended("unavailable") ELSE call[c]]
    /\ UNCHANGED <<backend, dirs>>

Restarts == ~up /\ up' = TRUE /\ UNCHANGED <<backend, dirs, stored, call>>

SinkStep(c) == WritesTemp(c) \/ Renames(c) \/ LoadReads(c) \/ LoadEnds(c)
=============================================================================
