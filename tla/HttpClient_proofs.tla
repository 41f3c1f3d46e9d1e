--------------------------- MODULE HttpClient_proofs ---------------------------
(***************************************************************************)
(* What every client of HttpClient may rely on, whatever it downloads and  *)
(* however many transfers there are: the steps of HttpClient preserve its  *)
(* types and DownloadsShared.  HeldOnce is proved call by call: HoldsEach  *)
(* says where one call is, and is the form in which every step is checked. *)
(***************************************************************************)
EXTENDS HttpClient, SequenceTheorems, TLAPS

USE NoneAssumption

-----------------------------------------------------------------------------
(* Types.                                                                  *)

\* The rest of the URLs to try is a sequence of URLs.
LEMMA TailTypes ==
    ASSUME NEW s \in Seq(Url), s # <<>>
    PROVE  Head(s) \in Url /\ Tail(s) \in Seq(Url)
  BY HeadTailProperties

\* The attempt at one URL, from download() or from a failure callback, keeps the
\* types of what it changes.
LEMMA FetchTypes ==
    ASSUME HttpTypeOK, NEW c \in Call, NEW u \in Url, NEW d \in Dest, Fetch(c, u, d)
    PROVE  /\ transfers' \in [Handle -> Transfer \cup {None}]
           /\ activeByDest' \in [Dest -> Handle \cup {None}]
           /\ deferred' \in SUBSET Call
  <1>1. CASE Refused(c) /\ UNCHANGED activeByDest
    BY <1>1 DEF Refused, HttpTypeOK
  <1>2. CASE Join(c, d)
    <2>1. /\ activeByDest[d] \in Handle
          /\ transfers[activeByDest[d]] \in Transfer
      BY <1>2 DEF Join, Joins, HttpTypeOK
    <2>2. [transfers[activeByDest[d]] EXCEPT !.callbacks = @ \cup {c}] \in Transfer
      BY <2>1 DEF Transfer
    <2>3. transfers' \in [Handle -> Transfer \cup {None}]
      BY <1>2, <2>1, <2>2 DEF Join, HttpTypeOK
    <2>4. QED BY <1>2, <2>3 DEF Join, HttpTypeOK
  <1>3. CASE Start(c, u, d)
    <2>1. [dest |-> d, url |-> u, callbacks |-> {c}] \in Transfer
      BY DEF Transfer
    <2>2. QED BY <1>3, <2>1 DEF Start, HttpTypeOK
  <1>4. CASE Refused(c) /\ activeByDest' = [activeByDest EXCEPT ![d] = None]
    BY <1>4 DEF Refused, HttpTypeOK
  <1>5. QED BY <1>1, <1>2, <1>3, <1>4 DEF Fetch

\* What a service may do to the state of HttpClient; at a restart everything is
\* as in a new process.
HttpNext ==
  \/ \E c \in Call, urls \in Seq(Url), d \in Dest : Download(c, urls, d)
  \/ \E h \in Handle, ok \in BOOLEAN : Finish(h, ok)
  \/ \E c \in Call : RunDeferred(c) \/ TryNext(c) \/ Answer(c)
  \/ HttpInit'

\* A new process has a state of the right type.
LEMMA HttpInitTypes == HttpInit => HttpTypeOK
  BY DEF HttpInit, HttpTypeOK

\* One callback less is left to run.
LEMMA WithoutCallTypes ==
    ASSUME HttpTypeOK, NEW c \in Call
    PROVE  WithoutCall(c) \in [calls : SUBSET Call, answer : Url \cup {None}]
  BY DEF WithoutCall, HttpTypeOK

\* Every step of HttpClient keeps the types; a retry because the call whose
\* callback runs is outstanding.
LEMMA HttpTypes ==
    ASSUME HttpTypeOK, HeldOnce, HttpNext \/ UNCHANGED httpVars
    PROVE  HttpTypeOK'
  <1>1. ASSUME NEW c \in Call, NEW urls \in Seq(Url), NEW d \in Dest, Download(c, urls, d)
        PROVE  HttpTypeOK'
    <2>1. [dest |-> d, rest |-> IF urls = <<>> THEN <<>> ELSE Tail(urls)] \in Pending
      BY TailTypes DEF Pending
    <2>2. pending' \in [Call -> Pending \cup {None}]
      BY <1>1, <2>1 DEF Download, HttpTypeOK
    <2>3. CASE urls = <<>>
      BY <1>1, <2>2, <2>3 DEF Download, Refused, HttpTypeOK
    <2>4. CASE urls # <<>>
      BY <1>1, <2>2, <2>4, TailTypes, FetchTypes DEF Download, HttpTypeOK
    <2>5. QED BY <2>3, <2>4
  <1>2. ASSUME NEW h \in Handle, NEW ok \in BOOLEAN, Finish(h, ok)
        PROVE  HttpTypeOK'
    <2>1. /\ transfers[h].callbacks \in SUBSET Call
          /\ (IF ok THEN transfers[h].url ELSE None) \in Url \cup {None}
      BY <1>2 DEF Finish, HttpTypeOK, Transfer
    <2>2. running' \in [calls : SUBSET Call, answer : Url \cup {None}]
      BY <1>2, <2>1 DEF Finish
    <2>3. QED BY <1>2, <2>2 DEF Finish, HttpTypeOK
  <1>3. ASSUME NEW c \in Call, RunDeferred(c)
        PROVE  HttpTypeOK'
    BY <1>3 DEF RunDeferred, HttpTypeOK
  <1>4. ASSUME NEW c \in Call, TryNext(c)
        PROVE  HttpTypeOK'
    <2> pending[c] \in Pending
      <3>1. c \in Outstanding
        BY <1>4 DEF TryNext, HeldOnce
      <3>2. QED BY <3>1 DEF Outstanding, HttpTypeOK
    <2>1. pending[c].rest \in Seq(Url) /\ pending[c].rest # <<>> /\ pending[c].dest \in Dest
      BY <1>4 DEF TryNext, Pending
    <2>2. [pending[c] EXCEPT !.rest = Tail(@)] \in Pending
      BY <1>4, <2>1, TailTypes DEF Pending
    <2>3. pending' \in [Call -> Pending \cup {None}]
      BY <1>4, <2>2 DEF TryNext, HttpTypeOK
    <2>4. Fetch(c, Head(pending[c].rest), pending[c].dest)
      BY <1>4 DEF TryNext
    <2>5. running' \in [calls : SUBSET Call, answer : Url \cup {None}]
      BY <1>4, WithoutCallTypes DEF TryNext
    <2>6. QED BY <2>1, <2>3, <2>4, <2>5, TailTypes, FetchTypes DEF HttpTypeOK
  <1>5. ASSUME NEW c \in Call, Answer(c)
        PROVE  HttpTypeOK'
    BY <1>5, WithoutCallTypes DEF Answer, HttpTypeOK
  <1>6. CASE HttpInit'
    BY <1>6 DEF HttpInit, HttpTypeOK
  <1>7. CASE UNCHANGED httpVars
    BY <1>7 DEF httpVars, HttpTypeOK
  <1>8. QED BY <1>1, <1>2, <1>3, <1>4, <1>5, <1>6, <1>7 DEF HttpNext

-----------------------------------------------------------------------------
(* Where a call is held.                                                   *)

\* The callback of c waits for the transfer on h.
In(c, h) == transfers[h] # None /\ c \in transfers[h].callbacks

\* HeldOnce, said of each call.
HoldsEach ==
  /\ \A c \in Call : pending[c] # None <=> \/ c \in running.calls
                                           \/ c \in deferred
                                           \/ \E h \in Handle : In(c, h)
  /\ \A c \in Call : ~(c \in running.calls /\ c \in deferred)
  /\ \A c \in Call, h \in Handle : In(c, h) => c \notin running.calls /\ c \notin deferred
  /\ \A c \in Call : \A g, h \in Handle : In(c, g) /\ In(c, h) => g = h

\* Both say the same of a state of the right type.
LEMMA HeldOnceIsHoldsEach == ASSUME HttpTypeOK PROVE HeldOnce <=> HoldsEach
  <1>1. \A h \in Handle : CallbacksOf(h) \in SUBSET Call
    BY DEF CallbacksOf, HttpTypeOK, Transfer
  <1>2. \A c \in Call, h \in Handle : In(c, h) <=> c \in CallbacksOf(h)
    BY DEF In, CallbacksOf
  <1>3. running.calls \in SUBSET Call /\ deferred \in SUBSET Call
    BY DEF HttpTypeOK
  <1>4. \A c : c \in (UNION {CallbacksOf(h) : h \in Handle}) <=> \E h \in Handle : c \in CallbacksOf(h)
    OBVIOUS
  <1>5. \A c \in Call : pending[c] # None <=> c \in Outstanding
    BY DEF Outstanding
  <1>6. ASSUME HeldOnce PROVE HoldsEach
    <2>1. \A c \in Call : c \in Outstanding <=> \/ c \in running.calls
                                                \/ c \in deferred
                                                \/ \E h \in Handle : In(c, h)
      BY <1>2, <1>6, <1>4 DEF HeldOnce
    <2>2. \A c \in Call : ~(c \in running.calls /\ c \in deferred)
      BY <1>6 DEF HeldOnce
    <2>3. \A c \in Call, h \in Handle : In(c, h) => c \notin running.calls /\ c \notin deferred
      BY <1>2, <1>6 DEF HeldOnce
    <2>4. \A c \in Call : \A g, h \in Handle : In(c, g) /\ In(c, h) => g = h
      BY <1>2, <1>6 DEF HeldOnce
    <2>5. QED BY <1>5, <2>1, <2>2, <2>3, <2>4 DEF HoldsEach
  <1>7. ASSUME HoldsEach PROVE HeldOnce
    <2>1. Outstanding = (UNION {CallbacksOf(h) : h \in Handle}) \cup running.calls \cup deferred
      <3>1. ASSUME NEW c \in Outstanding
            PROVE  c \in (UNION {CallbacksOf(h) : h \in Handle}) \cup running.calls \cup deferred
        BY <1>2, <1>7, <1>4 DEF HoldsEach, Outstanding
      <3>2. ASSUME NEW c \in (UNION {CallbacksOf(h) : h \in Handle}) \cup running.calls \cup deferred
            PROVE  c \in Outstanding
        <4>1. c \in Call
          BY <1>1, <1>3, <1>4
        <4>2. c \in running.calls \/ c \in deferred \/ \E h \in Handle : In(c, h)
          BY <1>2, <1>4, <4>1
        <4>3. QED BY <1>7, <1>5, <4>1, <4>2 DEF HoldsEach
      <3>3. QED BY <3>1, <3>2
    <2>2. \A h \in Handle : CallbacksOf(h) \cap (running.calls \cup deferred) = {}
      BY <1>1, <1>2, <1>7 DEF HoldsEach
    <2>3. running.calls \cap deferred = {}
      BY <1>3, <1>7 DEF HoldsEach
    <2>4. \A g, h \in Handle : g # h => CallbacksOf(g) \cap CallbacksOf(h) = {}
      BY <1>1, <1>2, <1>7 DEF HoldsEach
    <2>5. QED BY <2>1, <2>2, <2>3, <2>4 DEF HeldOnce
  <1>8. QED BY <1>6, <1>7

\* The attempt puts its call into one place, the deferred queue or one transfer,
\* and moves no other call.
LEMMA FetchHolds ==
    ASSUME HttpTypeOK, OneWriter, NEW c \in Call, NEW u \in Url, NEW d \in Dest, Fetch(c, u, d)
    PROVE  \/ /\ deferred' = deferred \cup {c}
              /\ \A x \in Call, g \in Handle : In(x, g)' <=> In(x, g)
           \/ /\ deferred' = deferred
              /\ \E h \in Handle : \A x \in Call, g \in Handle :
                   In(x, g)' <=> (In(x, g) \/ (x = c /\ g = h))
  <1>1. CASE Refused(c)
    BY <1>1 DEF Refused, In
  <1>2. CASE Join(c, d)
    <2> DEFINE h == activeByDest[d]
    <2>1. h \in Handle /\ transfers[h] \in Transfer
      BY <1>2 DEF Join, Joins, HttpTypeOK
    <2>2. transfers'[h] = [transfers[h] EXCEPT !.callbacks = @ \cup {c}]
      BY <1>2, <2>1 DEF Join, HttpTypeOK
    <2>3. transfers'[h] \in Transfer /\ transfers'[h].callbacks = transfers[h].callbacks \cup {c}
      BY <2>1, <2>2 DEF Transfer
    <2>4. \A g \in Handle : g # h => transfers'[g] = transfers[g]
      BY <1>2, <2>1 DEF Join, HttpTypeOK
    <2>5. \A x \in Call, g \in Handle : In(x, g)' <=> (In(x, g) \/ (x = c /\ g = h))
      BY <2>1, <2>3, <2>4 DEF In
    <2>6. QED BY <1>2, <2>1, <2>5 DEF Join
  <1>3. CASE Start(c, u, d)
    <2>1. PICK h \in Handle \ Active :
            transfers' = [transfers EXCEPT ![h] = [dest |-> d, url |-> u, callbacks |-> {c}]]
      BY <1>3 DEF Start
    <2>2. transfers[h] = None
      BY <2>1 DEF Active
    <2>3. transfers'[h] \in Transfer /\ transfers'[h].callbacks = {c}
      BY <2>1 DEF Transfer, HttpTypeOK
    <2>4. \A g \in Handle : g # h => transfers'[g] = transfers[g]
      BY <2>1 DEF HttpTypeOK
    <2>5. \A x \in Call, g \in Handle : In(x, g)' <=> (In(x, g) \/ (x = c /\ g = h))
      BY <2>2, <2>3, <2>4 DEF In
    <2>6. QED BY <1>3, <2>5 DEF Start
  <1>4. QED BY <1>1, <1>2, <1>3 DEF Fetch

\* The attempt keeps the active transfers and m_activeByDest in agreement.
LEMMA FetchWrites ==
    ASSUME HttpTypeOK, OneWriter, NEW c \in Call, NEW u \in Url, NEW d \in Dest, Fetch(c, u, d)
    PROVE  OneWriter'
  <1>1. CASE Refused(c) /\ UNCHANGED activeByDest
    BY <1>1 DEF Refused, OneWriter, Active
  <1>2. CASE Join(c, d)
    <2> DEFINE h == activeByDest[d]
    <2>1. h \in Handle /\ transfers[h] \in Transfer
      BY <1>2 DEF Join, Joins, HttpTypeOK
    <2>2. transfers'[h] \in Transfer /\ transfers'[h].dest = transfers[h].dest
      BY <1>2, <2>1 DEF Join, HttpTypeOK, Transfer
    <2>3. \A g \in Handle : g # h => transfers'[g] = transfers[g]
      BY <1>2, <2>1 DEF Join, HttpTypeOK
    <2>4. QED BY <1>2, <2>1, <2>2, <2>3 DEF Join, OneWriter, Active
  <1>3. CASE ~Joins(d) /\ Start(c, u, d)
    <2>1. PICK h \in Handle \ Active :
            /\ transfers' = [transfers EXCEPT ![h] = [dest |-> d, url |-> u, callbacks |-> {c}]]
            /\ activeByDest' = [activeByDest EXCEPT ![d] = h]
      BY <1>3 DEF Start
    <2>2. activeByDest[d] = None
      BY <1>3 DEF Joins, OneWriter, Active
    <2>3. transfers'[h] \in Transfer /\ transfers'[h].dest = d
      BY <2>1 DEF Transfer, HttpTypeOK
    <2>4. \A g \in Handle : g # h => transfers'[g] = transfers[g]
      BY <2>1 DEF HttpTypeOK
    <2>5. activeByDest'[d] = h /\ \A e \in Dest : e # d => activeByDest'[e] = activeByDest[e]
      BY <2>1 DEF HttpTypeOK
    <2>6. \A g \in Active : transfers[g].dest \in Dest /\ transfers[g].dest # d
      BY <2>2 DEF OneWriter, Active, HttpTypeOK, Transfer
    <2>7. \A g \in Handle : transfers'[g] # None => g = h \/ g \in Active
      BY <2>4 DEF Active
    <2>8. \A g \in Active' : activeByDest'[transfers'[g].dest] = g
      <3> TAKE g \in Active'
      <3>1. CASE g = h
        BY <2>3, <2>5, <3>1
      <3>2. CASE g # h
        <4>1. g \in Active /\ transfers'[g] = transfers[g]
          BY <2>4, <3>2 DEF Active
        <4>2. QED BY <2>5, <2>6, <4>1 DEF OneWriter
      <3>3. QED BY <3>1, <3>2
    <2>9. ASSUME NEW e \in Dest, activeByDest'[e] # None
          PROVE  activeByDest'[e] \in Active' /\ transfers'[activeByDest'[e]].dest = e
      <3>1. CASE e = d
        BY <2>1, <2>3, <2>5, <3>1 DEF Active
      <3>2. CASE e # d
        <4>1. /\ activeByDest'[e] = activeByDest[e]
              /\ activeByDest[e] \in Active
              /\ transfers[activeByDest[e]].dest = e
          BY <2>5, <2>9, <3>2 DEF OneWriter
        <4>2. activeByDest[e] \in Handle /\ activeByDest[e] # h
          BY <2>1, <4>1 DEF Active
        <4>3. QED BY <2>4, <4>1, <4>2 DEF Active
      <3>3. QED BY <3>1, <3>2
    <2>10. QED BY <2>8, <2>9 DEF OneWriter
  <1>4. CASE ~Joins(d) /\ Refused(c) /\ activeByDest' = [activeByDest EXCEPT ![d] = None]
    <2>1. activeByDest[d] = None
      BY <1>4 DEF Joins, OneWriter, Active
    <2>2. activeByDest' = activeByDest
      BY <1>4, <2>1 DEF HttpTypeOK
    <2>3. QED BY <1>4, <2>2 DEF Refused, OneWriter, Active
  <1>5. QED BY <1>1, <1>2, <1>3, <1>4 DEF Fetch

\* The attempt either adds its call to the transfer of the same file, whose URL it
\* takes over, or starts a transfer of its own; every other transfer stays.
LEMMA FetchAims ==
    ASSUME HttpTypeOK, OneWriter, NEW c \in Call, NEW u \in Url, NEW d \in Dest, Fetch(c, u, d),
           NEW h \in Handle, transfers'[h] # None
    PROVE  \/ /\ transfers[h] # None
              /\ transfers'[h].dest = transfers[h].dest
              /\ transfers'[h].url = transfers[h].url
              /\ \A x \in Call : In(x, h)' => In(x, h) \/ (x = c /\ transfers[h].dest = d)
           \/ /\ transfers[h] = None /\ ~Joins(d)
              /\ transfers'[h].dest = d
              /\ transfers'[h].url = u
              /\ \A x \in Call : In(x, h)' <=> x = c
  <1>1. CASE transfers'[h] = transfers[h]
    BY <1>1 DEF In
  <1>2. CASE Join(c, d) /\ h = activeByDest[d]
    <2>1. transfers[h] \in Transfer /\ transfers[h] # None /\ transfers[h].dest = d
      BY <1>2 DEF Join, Joins, OneWriter, HttpTypeOK
    <2>2. transfers'[h] = [transfers[h] EXCEPT !.callbacks = @ \cup {c}]
      BY <1>2 DEF Join, HttpTypeOK
    <2>3. /\ transfers'[h].dest = transfers[h].dest
          /\ transfers'[h].url = transfers[h].url
          /\ transfers'[h].callbacks = transfers[h].callbacks \cup {c}
      BY <2>1, <2>2 DEF Transfer
    <2>4. QED BY <2>1, <2>3 DEF In
  <1>3. CASE Join(c, d) /\ h # activeByDest[d]
    <2>1. activeByDest[d] \in Handle
      BY <1>3 DEF Join, Joins, HttpTypeOK
    <2>2. transfers'[h] = transfers[h]
      BY <1>3, <2>1 DEF Join, HttpTypeOK
    <2>3. QED BY <1>1, <2>2
  <1>4. CASE ~Joins(d) /\ Start(c, u, d)
    <2>1. PICK g \in Handle \ Active :
            transfers' = [transfers EXCEPT ![g] = [dest |-> d, url |-> u, callbacks |-> {c}]]
      BY <1>4 DEF Start
    <2>2. CASE h # g
      BY <1>1, <2>1, <2>2 DEF HttpTypeOK
    <2>3. CASE h = g
      <3>1. transfers[h] = None
        BY <2>1, <2>3 DEF Active
      <3>2. transfers'[h] = [dest |-> d, url |-> u, callbacks |-> {c}]
        BY <2>1, <2>3 DEF HttpTypeOK
      <3>3. transfers'[h].dest = d /\ transfers'[h].url = u /\ transfers'[h].callbacks = {c}
        BY <3>2
      <3>4. QED BY <1>4, <3>1, <3>3 DEF In
    <2>4. QED BY <2>2, <2>3
  <1>5. CASE Refused(c)
    BY <1>1, <1>5 DEF Refused
  <1>6. QED BY <1>2, <1>3, <1>4, <1>5 DEF Fetch

-----------------------------------------------------------------------------
(* Every step.                                                             *)

\* A call that is taken out of the running callbacks, or that is new, is held by
\* its next attempt and by nothing else.
LEMMA AttemptHolds ==
    ASSUME HttpTypeOK, OneWriter, HoldsEach,
           NEW c \in Call, NEW u \in Url, NEW d \in Dest, Fetch(c, u, d),
           c \notin deferred, \A h \in Handle : ~In(c, h),
           running.calls' = running.calls \ {c},
           pending'[c] # None,
           \A x \in Call : x # c => pending'[x] = pending[x]
    PROVE  HoldsEach'
  <1>1. CASE /\ deferred' = deferred \cup {c}
             /\ \A x \in Call, g \in Handle : In(x, g)' <=> In(x, g)
    <2>1. \A x \in Call : x # c =>
             (pending'[x] # None <=> \/ x \in running.calls'
                                     \/ x \in deferred'
                                     \/ \E h \in Handle : In(x, h)')
      BY <1>1 DEF HoldsEach
    <2>2. QED BY <1>1, <2>1 DEF HoldsEach
  <1>2. ASSUME deferred' = deferred,
               NEW h \in Handle,
               \A x \in Call, g \in Handle : In(x, g)' <=> (In(x, g) \/ (x = c /\ g = h))
        PROVE  HoldsEach'
    <2>1. \A x \in Call : x # c =>
             (pending'[x] # None <=> \/ x \in running.calls'
                                     \/ x \in deferred'
                                     \/ \E g \in Handle : In(x, g)')
      BY <1>2 DEF HoldsEach
    <2>2. In(c, h)' /\ \A g \in Handle : In(c, g)' => g = h
      BY <1>2
    <2>3. QED BY <1>2, <2>1, <2>2 DEF HoldsEach
  <1>3. QED BY <1>1, <1>2, FetchHolds

\* Nothing changes where a call is held when the maps stay as they are.
LEMMA HoldsKept ==
    ASSUME HoldsEach, UNCHANGED httpVars
    PROVE  HoldsEach'
  BY DEF HoldsEach, In, httpVars

\* A new process holds no call.
LEMMA HttpInitHolds == HttpInit => HoldsEach /\ OneWriter
  BY DEF HttpInit, HoldsEach, In, OneWriter, Active

\* Every step of HttpClient leaves each call that waits in one place.
LEMMA HttpHolds ==
    ASSUME HttpTypeOK, OneWriter, HoldsEach, HttpNext \/ UNCHANGED httpVars
    PROVE  HoldsEach'
  <1>1. ASSUME NEW c \in Call, NEW urls \in Seq(Url), NEW d \in Dest, Download(c, urls, d)
        PROVE  HoldsEach'
    <2> DEFINE p == [dest |-> d, rest |-> IF urls = <<>> THEN <<>> ELSE Tail(urls)]
    <2>1. p \in Pending
      BY TailTypes DEF Pending
    <2>2. /\ pending'[c] # None
          /\ \A x \in Call : x # c => pending'[x] = pending[x]
      BY <1>1, <2>1 DEF Download, HttpTypeOK
    <2>3. pending[c] = None
      BY <1>1 DEF Download, Outstanding
    <2>4. c \notin deferred /\ c \notin running.calls /\ \A h \in Handle : ~In(c, h)
      BY <2>3 DEF HoldsEach
    <2>5. running' = running /\ running.calls' = running.calls \ {c}
      BY <1>1, <2>4 DEF Download
    <2>6. CASE urls = <<>>
      <3>1. /\ deferred' = deferred \cup {c}
            /\ \A x \in Call, g \in Handle : In(x, g)' <=> In(x, g)
        BY <1>1, <2>6 DEF Download, Refused, In
      <3>2. \A x \in Call : x # c =>
             (pending'[x] # None <=> \/ x \in running.calls'
                                     \/ x \in deferred'
                                     \/ \E h \in Handle : In(x, h)')
        BY <2>2, <2>5, <3>1 DEF HoldsEach
      <3>3. QED BY <2>2, <2>4, <2>5, <3>1, <3>2 DEF HoldsEach
    <2>7. CASE urls # <<>>
      <3>1. Fetch(c, Head(urls), d) /\ Head(urls) \in Url
        BY <1>1, <2>7, TailTypes DEF Download
      <3>2. QED BY <2>2, <2>4, <2>5, <3>1, AttemptHolds
    <2>8. QED BY <2>6, <2>7
  <1>2. ASSUME NEW h \in Handle, NEW ok \in BOOLEAN, Finish(h, ok)
        PROVE  HoldsEach'
    <2>1. /\ transfers'[h] = None
          /\ \A g \in Handle : g # h => transfers'[g] = transfers[g]
          /\ running'.calls = transfers[h].callbacks
          /\ running.calls = {}
          /\ UNCHANGED <<deferred, pending>>
      BY <1>2 DEF Finish, AtRest, HttpTypeOK
    <2>2. \A x \in Call, g \in Handle : In(x, g)' <=> In(x, g) /\ g # h
      BY <2>1 DEF In
    <2>3. \A x \in Call : x \in running'.calls <=> In(x, h)
      BY <1>2, <2>1 DEF Finish, In
    <2>4. \A x \in Call : pending'[x] # None <=> \/ x \in running.calls'
                                                 \/ x \in deferred'
                                                 \/ \E g \in Handle : In(x, g)'
      BY <2>1, <2>2, <2>3 DEF HoldsEach
    <2>5. QED BY <2>1, <2>2, <2>3, <2>4 DEF HoldsEach
  <1>3. ASSUME NEW c \in Call, RunDeferred(c)
        PROVE  HoldsEach'
    <2>1. /\ running'.calls = {c}
          /\ running.calls = {}
          /\ c \in deferred
          /\ deferred' = deferred \ {c}
          /\ UNCHANGED <<transfers, pending>>
      BY <1>3 DEF RunDeferred, AtRest
    <2>2. \A x \in Call, g \in Handle : In(x, g)' <=> In(x, g)
      BY <2>1 DEF In
    <2>3. QED BY <2>1, <2>2 DEF HoldsEach
  <1>4. ASSUME NEW c \in Call, TryNext(c)
        PROVE  HoldsEach'
    <2>1. /\ c \in running.calls
          /\ running.calls' = running.calls \ {c}
          /\ Fetch(c, Head(pending[c].rest), pending[c].dest)
      BY <1>4 DEF TryNext, WithoutCall
    <2>2. pending[c] \in Pending /\ pending[c].rest # <<>>
      BY <1>4, <2>1 DEF TryNext, HoldsEach, HttpTypeOK
    <2>3. Head(pending[c].rest) \in Url /\ pending[c].dest \in Dest
      BY <2>2, TailTypes DEF Pending
    <2>4. [pending[c] EXCEPT !.rest = Tail(pending[c].rest)] \in Pending
      BY <2>2, TailTypes DEF Pending
    <2>5. /\ pending'[c] # None
          /\ \A x \in Call : x # c => pending'[x] = pending[x]
      BY <1>4, <2>4 DEF TryNext, HttpTypeOK
    <2>6. c \notin deferred /\ \A h \in Handle : ~In(c, h)
      BY <2>1 DEF HoldsEach
    <2>7. QED BY <2>1, <2>3, <2>5, <2>6, AttemptHolds
  <1>5. ASSUME NEW c \in Call, Answer(c)
        PROVE  HoldsEach'
    <2>1. /\ c \in running.calls
          /\ running.calls' = running.calls \ {c}
          /\ pending'[c] = None
          /\ \A x \in Call : x # c => pending'[x] = pending[x]
          /\ UNCHANGED <<transfers, deferred>>
      BY <1>5 DEF Answer, WithoutCall, HttpTypeOK
    <2>2. \A x \in Call, g \in Handle : In(x, g)' <=> In(x, g)
      BY <2>1 DEF In
    <2>3. QED BY <2>1, <2>2 DEF HoldsEach
  <1>6. CASE HttpInit'
    BY <1>6 DEF HttpInit, HoldsEach, In
  <1>7. QED BY <1>1, <1>2, <1>3, <1>4, <1>5, <1>6, HoldsKept DEF HttpNext

\* Every step of HttpClient keeps one writer for each file.
LEMMA HttpWrites ==
    ASSUME HttpTypeOK, OneWriter, HoldsEach, HttpNext \/ UNCHANGED httpVars
    PROVE  OneWriter'
  <1>1. ASSUME NEW c \in Call, NEW urls \in Seq(Url), NEW d \in Dest, Download(c, urls, d)
        PROVE  OneWriter'
    <2>1. CASE urls = <<>>
      BY <1>1, <2>1 DEF Download, Refused, OneWriter, Active
    <2>2. CASE urls # <<>>
      BY <1>1, <2>2, TailTypes, FetchWrites DEF Download
    <2>3. QED BY <2>1, <2>2
  <1>2. ASSUME NEW h \in Handle, NEW ok \in BOOLEAN, Finish(h, ok)
        PROVE  OneWriter'
    <2> DEFINE d == transfers[h].dest
    <2>1. h \in Active /\ d \in Dest /\ activeByDest[d] = h
      BY <1>2 DEF Finish, Active, OneWriter, HttpTypeOK, Transfer
    <2>2. /\ transfers'[h] = None
          /\ \A g \in Handle : g # h => transfers'[g] = transfers[g]
      BY <1>2 DEF Finish, HttpTypeOK
    <2>3. /\ activeByDest'[d] = None
          /\ \A e \in Dest : e # d => activeByDest'[e] = activeByDest[e]
      BY <1>2, <2>1 DEF Finish, HttpTypeOK
    <2>4. \A g \in Active' : activeByDest'[transfers'[g].dest] = g
      <3> TAKE g \in Active'
      <3>1. g # h /\ g \in Active /\ transfers'[g] = transfers[g]
        BY <2>2 DEF Active
      <3>2. transfers[g].dest \in Dest /\ activeByDest[transfers[g].dest] = g
        BY <3>1 DEF Active, OneWriter, HttpTypeOK, Transfer
      <3>3. transfers[g].dest # d
        BY <2>1, <3>1, <3>2
      <3>4. QED BY <2>3, <3>1, <3>2, <3>3
    <2>5. ASSUME NEW e \in Dest, activeByDest'[e] # None
          PROVE  activeByDest'[e] \in Active' /\ transfers'[activeByDest'[e]].dest = e
      <3>1. /\ e # d
            /\ activeByDest'[e] = activeByDest[e]
            /\ activeByDest[e] \in Active
            /\ transfers[activeByDest[e]].dest = e
        BY <2>3, <2>5 DEF OneWriter
      <3>2. activeByDest[e] # h
        BY <3>1
      <3>3. QED BY <2>2, <3>1, <3>2 DEF Active
    <2>6. QED BY <2>4, <2>5 DEF OneWriter
  <1>3. ASSUME NEW c \in Call, RunDeferred(c)
        PROVE  OneWriter'
    BY <1>3 DEF RunDeferred, OneWriter, Active
  <1>4. ASSUME NEW c \in Call, TryNext(c)
        PROVE  OneWriter'
    <2>1. pending[c] \in Pending /\ pending[c].rest # <<>>
      BY <1>4 DEF TryNext, HoldsEach, HttpTypeOK
    <2>2. Head(pending[c].rest) \in Url /\ pending[c].dest \in Dest
      BY <2>1, TailTypes DEF Pending
    <2>3. QED BY <1>4, <2>2, FetchWrites DEF TryNext
  <1>5. ASSUME NEW c \in Call, Answer(c)
        PROVE  OneWriter'
    BY <1>5 DEF Answer, OneWriter, Active
  <1>6. CASE HttpInit'
    BY <1>6 DEF HttpInit, OneWriter, Active
  <1>7. CASE UNCHANGED httpVars
    BY <1>7 DEF httpVars, OneWriter, Active
  <1>8. QED BY <1>1, <1>2, <1>3, <1>4, <1>5, <1>6, <1>7 DEF HttpNext

\* What a client relies on: the types and DownloadsShared are kept by every step of
\* HttpClient, whoever takes it.
THEOREM HttpStep ==
    ASSUME HttpTypeOK, DownloadsShared, HttpNext \/ UNCHANGED httpVars
    PROVE  HttpTypeOK' /\ DownloadsShared'
  <1>1. HttpTypeOK'
    BY HttpTypes DEF DownloadsShared
  <1>2. HoldsEach /\ OneWriter
    BY HeldOnceIsHoldsEach DEF DownloadsShared
  <1>3. HoldsEach' /\ OneWriter'
    BY <1>2, HttpHolds, HttpWrites
  <1>4. HttpTypeOK' => (HeldOnce' <=> HoldsEach')
    BY HeldOnceIsHoldsEach, PTL
  <1>5. QED BY <1>1, <1>3, <1>4 DEF DownloadsShared

\* A new process satisfies both.
LEMMA HttpInitShared == HttpInit => HttpTypeOK /\ DownloadsShared
  BY HttpInitTypes, HttpInitHolds, HeldOnceIsHoldsEach DEF DownloadsShared
=============================================================================
