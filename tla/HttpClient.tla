------------------------------ MODULE HttpClient ------------------------------
(***************************************************************************)
(* Downloads of HttpClient (src/src/net/http_client.cpp): transfers to     *)
(* files, driven by the main loop through curl, shared by all services.    *)
(*                                                                         *)
(* A second download to the destination of a running transfer joins it: its*)
(* callback is added and its own URL is not requested.  A download of      *)
(* several URLs tries the next one from the failure callback of the one    *)
(* before.  Failures known at once are reported by a deferred call, never  *)
(* from inside download().                                                 *)
(*                                                                         *)
(* A URL stands for the content its answer has.  The callbacks of a        *)
(* transfer run one after the other; their order tells the properties      *)
(* nothing, so they form a set.  Requests without a file (post, request)   *)
(* and streams share none of the state below and are not modelled.         *)
(***************************************************************************)
EXTENDS Naturals, Sequences, FiniteSets

CONSTANTS
  Dest,    \* destination files
  Url,     \* what can be asked for
  Call,    \* calls of download(): one completion callback each
  Handle,  \* curl easy handles
  None

VARIABLES
  transfers,     \* m_transfers: what each handle fetches, None for a free one
  activeByDest,  \* m_activeByDest
  running,       \* the completion callbacks still to run in this dispatch, and
                 \* the URL whose answer they find in the file, None after a failure
  deferred,      \* calls whose failure waits in the deferred queue
  pending        \* what the callback of each call has captured, None once it has run

httpVars == <<transfers, activeByDest, running, deferred, pending>>

Transfer == [dest : Dest, url : Url, callbacks : SUBSET Call]

\* SequentialDownload: the file and the URLs still to try.
Pending == [dest : Dest, rest : Seq(Url)]

\* None is none of the things it stands for the absence of.
ASSUME NoneAssumption ==
  /\ None \notin Url
  /\ None \notin Call
  /\ None \notin Handle
  /\ None \notin Transfer
  /\ None \notin Pending

HttpTypeOK ==
  /\ transfers \in [Handle -> Transfer \cup {None}]
  /\ activeByDest \in [Dest -> Handle \cup {None}]
  /\ running \in [calls : SUBSET Call, answer : Url \cup {None}]
  /\ deferred \in SUBSET Call
  /\ pending \in [Call -> Pending \cup {None}]

Outstanding == {c \in Call : pending[c] # None}

Active == {h \in Handle : transfers[h] # None}

\* The main thread is not inside a completion callback.
AtRest == running.calls = {}

\* What a new process has: no transfer and no callback.
HttpInit ==
  /\ transfers = [h \in Handle |-> None]
  /\ activeByDest = [d \in Dest |-> None]
  /\ running = [calls |-> {}, answer |-> None]
  /\ deferred = {}
  /\ pending = [c \in Call |-> None]

-----------------------------------------------------------------------------
(* download(url, dest, cb): refused offline - and shell.offline_mode may be *)
(* switched between any two calls -, joined to the transfer of the same     *)
(* file, or started; then the file or the handle may still be refused.      *)

Joins(d) == activeByDest[d] # None /\ transfers[activeByDest[d]] # None

Refused(c) ==
  /\ deferred' = deferred \cup {c}
  /\ UNCHANGED transfers

\* The URL of a call that joins is not used.
Join(c, d) ==
  /\ Joins(d)
  /\ transfers' = [transfers EXCEPT ![activeByDest[d]].callbacks = @ \cup {c}]
  /\ UNCHANGED <<activeByDest, deferred>>

Start(c, u, d) ==
  \E h \in Handle \ Active :
    /\ transfers' = [transfers EXCEPT ![h] = [dest |-> d, url |-> u, callbacks |-> {c}]]
    /\ activeByDest' = [activeByDest EXCEPT ![d] = h]
    /\ UNCHANGED deferred

Fetch(c, u, d) ==
  \/ Refused(c) /\ UNCHANGED activeByDest
  \/ Join(c, d)
  \/ ~Joins(d) /\ Start(c, u, d)
  \/ ~Joins(d) /\ Refused(c) /\ activeByDest' = [activeByDest EXCEPT ![d] = None]

\* A service asks for the urls in order; no URL at all is a failure.
Download(c, urls, d) ==
  /\ AtRest
  /\ c \notin Outstanding
  /\ IF urls = <<>>
       THEN Refused(c) /\ UNCHANGED activeByDest
       ELSE Fetch(c, Head(urls), d)
  /\ pending' = [pending EXCEPT ![c] =
                   [dest |-> d, rest |-> IF urls = <<>> THEN <<>> ELSE Tail(urls)]]
  /\ UNCHANGED running

-----------------------------------------------------------------------------
(* dispatch() and the deferred queue.                                      *)

\* Mutant: the destination stays marked as active until the callbacks have run, so
\* the entry survives a finished transfer.
MutFinish(h, ok) ==
  /\ AtRest
  /\ transfers[h] # None
  /\ transfers' = [transfers EXCEPT ![h] = None]
  /\ running' = [calls |-> transfers[h].callbacks,
                 answer |-> IF ok THEN transfers[h].url ELSE None]
  /\ UNCHANGED <<activeByDest, deferred, pending>>

\* finishTransfer(): the transfer leaves both maps, the file is moved into
\* place, then the callbacks run.  A move that fails counts as a failure.
Finish(h, ok) ==
  /\ AtRest
  /\ transfers[h] # None
  /\ transfers' = [transfers EXCEPT ![h] = None]
  /\ activeByDest' = [activeByDest EXCEPT ![transfers[h].dest] = None]
  /\ running' = [calls |-> transfers[h].callbacks,
                 answer |-> IF ok THEN transfers[h].url ELSE None]
  /\ UNCHANGED <<deferred, pending>>

\* A deferred failure is delivered.
RunDeferred(c) ==
  /\ AtRest
  /\ c \in deferred
  /\ deferred' = deferred \ {c}
  /\ running' = [calls |-> {c}, answer |-> None]
  /\ UNCHANGED <<transfers, activeByDest, pending>>

\* One callback returns; after the last one the answer has served its purpose.
WithoutCall(c) ==
  [calls |-> running.calls \ {c},
   answer |-> IF running.calls = {c} THEN None ELSE running.answer]

\* The callback of a failed attempt has another URL to try: downloadSequential()
\* calls download() again, from inside the callback.
TryNext(c) ==
  /\ c \in running.calls
  /\ running.answer = None /\ pending[c].rest # <<>>
  /\ running' = WithoutCall(c)
  /\ pending' = [pending EXCEPT ![c].rest = Tail(@)]
  /\ Fetch(c, Head(pending[c].rest), pending[c].dest)

\* The callback answers its caller, whose handler is a conjunct of the step.
Answer(c) ==
  /\ c \in running.calls
  /\ running.answer # None \/ pending[c].rest = <<>>
  /\ running' = WithoutCall(c)
  /\ pending' = [pending EXCEPT ![c] = None]
  /\ UNCHANGED <<transfers, activeByDest, deferred>>

-----------------------------------------------------------------------------
(* What every caller relies on.                                            *)

CallbacksOf(h) == IF transfers[h] = None THEN {} ELSE transfers[h].callbacks

\* Every call that waits for its answer is held in exactly one place - one
\* transfer, the callbacks being run, or the deferred queue - and a call that has
\* been answered in none: each completion callback runs exactly once, through
\* joins, retries from inside callbacks, refusals and failures of every kind.
HeldOnce ==
  /\ Outstanding = (UNION {CallbacksOf(h) : h \in Handle}) \cup running.calls \cup deferred
  /\ \A h \in Handle : CallbacksOf(h) \cap (running.calls \cup deferred) = {}
  /\ running.calls \cap deferred = {}
  /\ \A g, h \in Handle : g # h => CallbacksOf(g) \cap CallbacksOf(h) = {}

\* Two transfers never write the same temporary file, also when a failure
\* callback starts the next transfer of that file: the active transfers and
\* m_activeByDest name each other.
OneWriter ==
  /\ \A h \in Active : activeByDest[transfers[h].dest] = h
  /\ \A d \in Dest : activeByDest[d] # None =>
       /\ activeByDest[d] \in Active
       /\ transfers[activeByDest[d]].dest = d

\* Sharing a download neither loses an answer nor gives one twice, and never lets
\* two transfers write one file.
DownloadsShared == HeldOnce /\ OneWriter
=============================================================================
