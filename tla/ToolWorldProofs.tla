--------------------------- MODULE ToolWorldProofs ---------------------------
(***************************************************************************)
(* Machine-checked proofs about ToolWorld: whatever the domain handlers do,  *)
(* whatever is asked in whatever order, retried, failed, interrupted or not  *)
(* heard, mutations take effect at most once and answers are of effects.     *)
(***************************************************************************)
EXTENDS ToolWorld, SequenceTheorems, TLAPS

(***************************************************************************)
(* The inductive invariant                                                 *)
(***************************************************************************)

Entries(E) == [by : SUBSET Call, event : E]

\* The idempotency table and the event log tell the same story: each stored
\* answer points at the event of its call, and each event of a call is the one
\* its key answers with.
Coherent(an, lg) ==
  /\ an \in [Key -> SUBSET [call : Call, answer : Nat]]
  /\ \E E : lg \in Seq(Entries(E))
  /\ \A k \in Key : \A a \in an[k] :
       a.call.key = k /\ a.answer \in DOMAIN lg /\ a.call \in lg[a.answer].by
  /\ \A i \in DOMAIN lg : \A c \in lg[i].by : an[c.key] = {Answer(c, i)}

\* What the open transaction would install: nothing new, when the call was
\* answered before, or one more event, filed under a key that had none.
Replays(t) ==
  /\ t.log = log /\ t.answers = answers
  /\ \E i \in DOMAIN log : answers[t.call.key] = {Answer(t.call, i)}

Adds(t) ==
  /\ answers[t.call.key] = {}
  /\ \E event : t.log = Append(log, [by |-> {t.call}, event |-> event])
  /\ t.answers = [answers EXCEPT ![t.call.key] = {Answer(t.call, Len(log) + 1)}]

Effected == {e \in [call : Call, answer : DOMAIN log] : e.call \in log[e.answer].by}

NoneFailed == \A i \in DOMAIN log : \A c \in log[i].by : ~c.fails

SpineInv ==
  /\ Coherent(answers, log)
  /\ \A t \in tx : t.call \in Call /\ (Replays(t) \/ Adds(t))
  /\ told \subseteq Effected
  /\ NoneFailed

(***************************************************************************)
(* Lemmas about the log                                                    *)
(***************************************************************************)

\* Appending an entry to the event log adds one position and keeps the others.
LEMMA AppendEntry ==
  ASSUME NEW E, NEW lg \in Seq(Entries(E)), NEW F, NEW entry \in Entries(F)
  PROVE  /\ Append(lg, entry) \in Seq(Entries(E \cup F))
         /\ Len(lg) \in Nat
         /\ DOMAIN lg = 1..Len(lg)
         /\ DOMAIN Append(lg, entry) = 1..(Len(lg) + 1)
         /\ \A i \in DOMAIN lg : Append(lg, entry)[i] = lg[i]
         /\ Append(lg, entry)[Len(lg) + 1] = entry
  <1> DEFINE G == Entries(E \cup F)
  <1>1. Len(lg) \in Nat /\ DOMAIN lg = 1..Len(lg)
    OBVIOUS
  <1>2. Entries(E) \subseteq G /\ entry \in G
    BY DEF Entries
  <1> HIDE DEF G
  <1>3. lg \in Seq(G)
    BY <1>2, SeqMonotonic
  <1>4. /\ Append(lg, entry) \in Seq(G)
        /\ Len(Append(lg, entry)) = Len(lg) + 1
        /\ \A i \in 1..Len(lg) : Append(lg, entry)[i] = lg[i]
        /\ Append(lg, entry)[Len(lg) + 1] = entry
    BY <1>2, <1>3, AppendProperties
  <1>5. DOMAIN Append(lg, entry) = 1..(Len(lg) + 1)
    BY <1>4
  <1> QED
    BY <1>1, <1>4, <1>5 DEF G

\* A committed call that adds an event leaves table and log coherent, and its
\* event is its only effect: the transaction of a first attempt.
LEMMA CoherentAfterCommit ==
  ASSUME Coherent(answers, log), NEW t, t.call \in Call, Adds(t)
  PROVE  /\ Coherent(t.answers, t.log)
         /\ DOMAIN t.log = DOMAIN log \cup {Len(log) + 1}
         /\ Len(log) \in Nat /\ DOMAIN log = 1..Len(log)
         /\ \A i \in DOMAIN log : t.log[i] = log[i]
         /\ t.log[Len(log) + 1].by = {t.call}
         /\ t.answers[t.call.key] = {Answer(t.call, Len(log) + 1)}
  <1> DEFINE c == t.call
             n == Len(log) + 1
  <1>1. PICK event : t.log = Append(log, [by |-> {c}, event |-> event])
    BY DEF Adds
  <1>0. (\E E : log \in Seq(Entries(E))) /\ {c} \in SUBSET Call
    BY DEF Coherent
  <1>2. /\ \E E : t.log \in Seq(Entries(E))
        /\ Len(log) \in Nat
        /\ DOMAIN log = 1..Len(log)
        /\ DOMAIN t.log = 1..n
        /\ \A i \in DOMAIN log : t.log[i] = log[i]
        /\ t.log[n].by = {c}
    <2> DEFINE entry == [by |-> {c}, event |-> event]
    <2>1. PICK E : log \in Seq(Entries(E))
      BY <1>0
    <2>2. entry \in Entries({event})
      BY <1>0 DEF Entries
    <2>3. t.log = Append(log, entry) /\ entry.by = {c}
      BY <1>1
    <2> HIDE DEF entry
    <2>4. /\ Append(log, entry) \in Seq(Entries(E \cup {event}))
          /\ Len(log) \in Nat
          /\ DOMAIN log = 1..Len(log)
          /\ DOMAIN Append(log, entry) = 1..(Len(log) + 1)
          /\ \A i \in DOMAIN log : Append(log, entry)[i] = log[i]
          /\ Append(log, entry)[Len(log) + 1] = entry
      BY <2>1, <2>2, AppendEntry
    <2> QED
      BY <2>3, <2>4
  <1>3. DOMAIN t.log = DOMAIN log \cup {n}
    BY <1>2
  <1>4. c.key \in Key
    BY CallAssumption
  <1>5. /\ t.answers = [answers EXCEPT ![c.key] = {Answer(c, n)}]
        /\ answers \in [Key -> SUBSET [call : Call, answer : Nat]]
        /\ answers[c.key] = {}
    BY DEF Adds, Coherent
  <1>6. /\ t.answers[c.key] = {Answer(c, n)}
        /\ \A k \in Key \ {c.key} : t.answers[k] = answers[k]
    BY <1>4, <1>5
  <1>7. t.answers \in [Key -> SUBSET [call : Call, answer : Nat]]
    <2>1. Answer(c, n) \in [call : Call, answer : Nat]
      BY <1>2 DEF Answer
    <2>2. {Answer(c, n)} \in SUBSET [call : Call, answer : Nat]
      BY <2>1
    <2> HIDE DEF c, n
    <2> QED
      BY <1>5, <2>2
  <1>8. ASSUME NEW k \in Key, NEW a \in t.answers[k]
        PROVE  a.call.key = k /\ a.answer \in DOMAIN t.log /\ a.call \in t.log[a.answer].by
    <2>1. CASE k = c.key
      BY <1>2, <1>3, <1>6, <1>8, <2>1 DEF Answer
    <2>2. CASE k # c.key
      BY <1>2, <1>3, <1>6, <1>8, <2>2 DEF Coherent
    <2> QED
      BY <2>1, <2>2
  <1>9. ASSUME NEW i \in DOMAIN t.log, NEW d \in t.log[i].by
        PROVE  t.answers[d.key] = {Answer(d, i)}
    <2>1. CASE i = n
      BY <1>2, <1>6, <1>9, <2>1
    <2>2. CASE i \in DOMAIN log
      <3>1. answers[d.key] = {Answer(d, i)}
        BY <1>2, <1>9, <2>2 DEF Coherent
      <3>2. PICK E : log \in Seq(Entries(E))
        BY DEF Coherent
      <3>3. d \in Call
        <4>1. log[i] \in Entries(E)
          BY <2>2, <3>2, <1>2, ElementOfSeq
        <4> QED
          BY <1>2, <1>9, <2>2, <4>1 DEF Entries
      <3>4. d.key # c.key
        BY <1>5, <3>1
      <3> QED
        BY <1>6, <3>1, <3>3, <3>4, CallAssumption
    <2> QED
      BY <1>3, <2>1, <2>2
  <1> QED
    BY <1>2, <1>3, <1>6, <1>7, <1>8, <1>9 DEF Coherent

\* A scheduled injection adds an event of nobody's call: no answer and no effect
\* of a call changes.
LEMMA CoherentAfterInjection ==
  ASSUME Coherent(answers, log), NEW event, NEW new,
         new = Append(log, [by |-> {}, event |-> event])
  PROVE  /\ Coherent(answers, new)
         /\ DOMAIN new = DOMAIN log \cup {Len(log) + 1}
         /\ \A i \in DOMAIN log : new[i] = log[i]
         /\ new[Len(log) + 1].by = {}
  <1> DEFINE entry == [by |-> {}, event |-> event]
  <1>1. PICK E : log \in Seq(Entries(E))
    BY DEF Coherent
  <1>2. entry \in Entries({event}) /\ entry.by = {} /\ new = Append(log, entry)
    BY DEF Entries
  <1> HIDE DEF entry
  <1>3. /\ new \in Seq(Entries(E \cup {event}))
        /\ Len(log) \in Nat
        /\ DOMAIN log = 1..Len(log)
        /\ DOMAIN new = 1..(Len(log) + 1)
        /\ \A i \in DOMAIN log : new[i] = log[i]
        /\ new[Len(log) + 1] = entry
    BY <1>1, <1>2, AppendEntry
  <1>4. DOMAIN new = DOMAIN log \cup {Len(log) + 1}
    BY <1>3
  <1>5. ASSUME NEW k \in Key, NEW a \in answers[k]
        PROVE  a.call.key = k /\ a.answer \in DOMAIN new /\ a.call \in new[a.answer].by
    BY <1>3, <1>4 DEF Coherent
  <1>6. ASSUME NEW i \in DOMAIN new, NEW c \in new[i].by
        PROVE  answers[c.key] = {Answer(c, i)}
    <2>1. i \in DOMAIN log /\ c \in log[i].by
      BY <1>2, <1>3, <1>4
    <2> QED
      BY <2>1 DEF Coherent
  <1> QED
    BY <1>2, <1>3, <1>4, <1>5, <1>6 DEF Coherent

\* An effect is what its key answers with.
LEMMA EffectedAnswers ==
  ASSUME Coherent(answers, log), NEW e \in Effected
  PROVE  e.call \in Call /\ answers[e.call.key] = {e}
  <1>1. /\ e \in [call : Call, answer : DOMAIN log]
        /\ answers[e.call.key] = {Answer(e.call, e.answer)}
    BY DEF Effected, Coherent
  <1>2. Answer(e.call, e.answer) = e
    BY <1>1 DEF Answer
  <1> QED
    BY <1>1, <1>2

\* A caller whose key holds one answer to its call is told that answer.
LEMMA OneAnswer ==
  ASSUME NEW c, NEW n
  PROVE  {Answer(c, a.answer) : a \in {Answer(c, n)}} = {Answer(c, n)}
  <1>1. Answer(c, n).answer = n
    BY DEF Answer
  <1> QED
    BY <1>1

\* What a commit does to the effects: nothing for a call answered before, one
\* more for a first attempt; and what the transaction answers is an effect.
LEMMA Installed ==
  ASSUME SpineInv, NEW t \in tx, MayCommit(t), Install(t)
  PROVE  /\ Coherent(answers, log)'
         /\ NoneFailed'
         /\ Heard(t) \subseteq Effected'
         /\ \/ Effected' = Effected
            \/ \E e \in [call : Call, answer : Nat] :
                 /\ e \notin Effected
                 /\ \A x \in Effected : x.call.key # e.call.key
                 /\ Effected' = Effected \cup {e}
                 /\ Heard(t) = {e}
         /\ \E e : Heard(t) = {e}
  <1>1. /\ t.call \in Call /\ (Replays(t) \/ Adds(t))
        /\ Coherent(answers, log)
        /\ log' = t.log /\ answers' = t.answers
        /\ ~t.call.fails
    BY DEF SpineInv, Install, MayCommit
  <1>2. CASE Replays(t)
    <2>1. log' = log /\ answers' = answers /\ t.answers = answers
      BY <1>1, <1>2 DEF Replays
    <2>2. PICK i \in DOMAIN log : answers[t.call.key] = {Answer(t.call, i)}
      BY <1>2 DEF Replays
    <2>3. Answer(t.call, i) \in Effected
      <3>1. t.call.key \in Key
        BY <1>1, CallAssumption
      <3>2. t.call \in log[i].by
        <4> DEFINE a == Answer(t.call, i)
        <4>1. a.call = t.call /\ a.answer = i
          BY DEF Answer
        <4>2. a \in answers[t.call.key]
          BY <2>2
        <4> HIDE DEF a
        <4> QED
          BY <1>1, <3>1, <4>1, <4>2 DEF Coherent
      <3> QED
        BY <1>1, <2>2, <3>2 DEF Effected, Answer
    <2>4. Coherent(answers, log)' /\ Effected' = Effected /\ NoneFailed'
      BY <1>1, <2>1 DEF Coherent, Effected, NoneFailed, SpineInv
    <2>5. Heard(t) = {Answer(t.call, i)}
      BY <2>1, <2>2, OneAnswer DEF Heard
    <2> QED
      BY <2>3, <2>4, <2>5
  <1>3. CASE Adds(t)
    <2> DEFINE n == Len(log) + 1
               e == Answer(t.call, n)
    <2>1. /\ Coherent(t.answers, t.log)
          /\ DOMAIN t.log = DOMAIN log \cup {n}
          /\ Len(log) \in Nat /\ DOMAIN log = 1..Len(log)
          /\ \A i \in DOMAIN log : t.log[i] = log[i]
          /\ t.log[n].by = {t.call}
          /\ t.answers[t.call.key] = {e}
      BY <1>1, <1>3, CoherentAfterCommit
    <2>2. Coherent(answers, log)'
      BY <1>1, <2>1 DEF Coherent
    <2>3. NoneFailed'
      BY <1>1, <2>1 DEF NoneFailed, SpineInv
    <2>4. n \notin DOMAIN log /\ n \in Nat
      BY <2>1
    <2>5. e \in [call : Call, answer : Nat] /\ e.call = t.call /\ e.answer = n
      BY <1>1, <2>4 DEF Answer
    <2>6. e \notin Effected
      BY <2>4, <2>5 DEF Effected
    <2>7. Effected' = Effected \cup {e}
      <3>1. Effected' = {x \in [call : Call, answer : DOMAIN log \cup {n}] :
                           x.call \in t.log[x.answer].by}
        BY <1>1, <2>1 DEF Effected
      <3>2. ASSUME NEW x \in Effected'
            PROVE  x \in Effected \cup {e}
        <4>1. CASE x.answer = n
          <5>1. x \in [call : Call, answer : DOMAIN log \cup {n}] /\ x.call = t.call
            BY <2>1, <3>1, <3>2, <4>1
          <5>2. x = e
            BY <4>1, <5>1 DEF Answer
          <5> QED
            BY <5>2
        <4>2. CASE x.answer \in DOMAIN log
          BY <2>1, <3>1, <3>2, <4>2 DEF Effected
        <4> QED
          BY <3>1, <3>2, <4>1, <4>2
      <3>3. ASSUME NEW x \in Effected \cup {e}
            PROVE  x \in Effected'
        <4>1. CASE x = e
          BY <1>1, <2>1, <2>5, <3>1, <4>1 DEF Answer
        <4>2. CASE x \in Effected
          BY <2>1, <3>1, <4>2 DEF Effected
        <4> QED
          BY <3>3, <4>1, <4>2
      <3> QED
        BY <3>2, <3>3
    <2>8. \A x \in Effected : x.call.key # e.call.key
      <3>1. answers[e.call.key] = {}
        BY <1>3, <2>5 DEF Adds
      <3>2. \A x \in Effected : answers[x.call.key] = {x}
        BY <1>1, EffectedAnswers
      <3> QED
        BY <3>1, <3>2
    <2>9. Heard(t) = {e}
      <3>1. t.answers[t.call.key] = {Answer(t.call, n)}
        BY <2>1
      <3> HIDE DEF n
      <3> QED
        BY <3>1, OneAnswer DEF Heard
    <2> HIDE DEF e
    <2> QED
      BY <2>2, <2>3, <2>5, <2>6, <2>7, <2>8, <2>9
  <1> QED
    BY <1>1, <1>2, <1>3

(***************************************************************************)
(* The invariant is inductive                                              *)
(***************************************************************************)

\* A world just reset has remembered and recorded nothing.
LEMMA InitSpine == Init => SpineInv
  <1> SUFFICES ASSUME Init
               PROVE  SpineInv
    OBVIOUS
  <1>1. log = <<>> /\ DOMAIN log = {} /\ log \in Seq(Entries({}))
    BY DEF Init
  <1>2. Coherent(answers, log)
    BY <1>1 DEF Init, Coherent
  <1> QED
    BY <1>1, <1>2 DEF Init, SpineInv, NoneFailed, Effected

\* A call that runs opens a transaction that either replays its answer or adds
\* its event; it sees no other, the invoke lock is held.
LEMMA ExecuteSpine ==
  ASSUME SpineInv, NEW c \in Call, Execute(c)
  PROVE  SpineInv'
  <1>1. UNCHANGED <<answers, log, told>> /\ Coherent(answers, log) /\ c.key \in Key
    BY CallAssumption DEF Execute, SpineInv
  <1>2. /\ Coherent(answers, log)'
        /\ (told \subseteq Effected)'
        /\ NoneFailed'
    BY <1>1 DEF SpineInv, Coherent, Effected, NoneFailed
  <1>3. ASSUME NEW t \in tx'
        PROVE  t.call \in Call /\ (Replays(t) \/ Adds(t))'
    <2>1. CASE Fresh(c) /\ \E r \in Effect(c, doc) : WriteAll(c, r)
      <3>1. PICK r \in Effect(c, doc) : WriteAll(c, r)
        BY <2>1
      <3>2. /\ t.call = c
            /\ t.log = Append(log, [by |-> {c}, event |-> r.event])
            /\ t.answers = [answers EXCEPT ![c.key] = {Answer(c, Len(log) + 1)}]
        BY <1>3, <3>1 DEF WriteAll, Entry
      <3>3. Adds(t)
        BY <2>1, <3>2 DEF Adds, Fresh
      <3> QED
        BY <1>1, <3>2, <3>3 DEF Adds
    <2>2. CASE Repeats(c) /\ ReadAnswer(c)
      <3>1. t.call = c /\ t.log = log /\ t.answers = answers
        BY <1>3, <2>2 DEF ReadAnswer
      <3>2. PICK a \in answers[c.key] : a.call = c
        BY <2>2 DEF Repeats
      <3>3. a.answer \in DOMAIN log /\ c \in log[a.answer].by
        BY <1>1, <3>2 DEF Coherent
      <3>4. answers[c.key] = {Answer(c, a.answer)}
        BY <1>1, <3>3 DEF Coherent
      <3>5. Replays(t)
        BY <3>1, <3>3, <3>4 DEF Replays
      <3> QED
        BY <1>1, <3>1, <3>5 DEF Replays
    <2> QED
      BY <2>1, <2>2 DEF Execute
  <1> QED
    BY <1>2, <1>3 DEF SpineInv

\* No step of a world breaks the agreement of answers, events and what callers
\* were told, whatever the handlers do.
LEMMA NextSpine == SpineInv /\ [Next]_worldVars => SpineInv'
  <1> SUFFICES ASSUME SpineInv, [Next]_worldVars
               PROVE  SpineInv'
    OBVIOUS
  <1>1. ASSUME NEW c \in Offered(doc) \cap Call, Execute(c)
        PROVE  SpineInv'
    BY <1>1, ExecuteSpine
  <1>2. ASSUME NEW t \in tx, MayCommit(t), Install(t),
               told' = told \cup Heard(t) \/ told' = told
        PROVE  SpineInv'
    <2>1. /\ Coherent(answers, log)'
          /\ NoneFailed'
          /\ Heard(t) \subseteq Effected'
          /\ Effected \subseteq Effected'
      BY <1>2, Installed
    <2>2. told' \subseteq Effected'
      BY <1>2, <2>1 DEF SpineInv
    <2> QED
      BY <1>2, <2>1, <2>2 DEF SpineInv, Install
  <1>3. CASE CommitAnswered
    BY <1>2, <1>3 DEF CommitAnswered
  <1>4. CASE CommitUnheard
    BY <1>2, <1>4 DEF CommitUnheard
  <1>5. CASE Rollback
    BY <1>5 DEF Rollback, SpineInv, Coherent, Effected, NoneFailed
  <1>6. CASE Inject
    <2>1. PICK r \in Injected(doc) : log' = Append(log, Entry({}, r))
      BY <1>6 DEF Inject
    <2>2. /\ Coherent(answers, log')
          /\ DOMAIN log' = DOMAIN log \cup {Len(log) + 1}
          /\ \A i \in DOMAIN log : log'[i] = log[i]
          /\ log'[Len(log) + 1].by = {}
      <3>1. Coherent(answers, log)
        BY DEF SpineInv
      <3>2. log' = Append(log, [by |-> {}, event |-> r.event])
        BY <2>1 DEF Entry
      <3> QED
        BY <3>1, <3>2, CoherentAfterInjection
    <2>3. UNCHANGED <<answers, told, tx>> /\ tx = {}
      BY <1>6 DEF Inject
    <2>4. Coherent(answers, log)'
      BY <2>2, <2>3 DEF Coherent
    <2>5. NoneFailed'
      <3>1. ASSUME NEW i \in DOMAIN log', NEW c \in log'[i].by
            PROVE  ~c.fails
        <4>1. CASE i = Len(log) + 1
          BY <2>2, <3>1, <4>1
        <4>2. CASE i \in DOMAIN log
          BY <2>2, <3>1, <4>2 DEF NoneFailed, SpineInv
        <4> QED
          BY <2>2, <3>1, <4>1, <4>2
      <3> QED
        BY <3>1 DEF NoneFailed
    <2>6. Effected \subseteq Effected'
      BY <2>2 DEF Effected
    <2> QED
      BY <2>3, <2>4, <2>5, <2>6 DEF SpineInv
  <1>7. CASE UNCHANGED worldVars
    BY <1>7 DEF worldVars, SpineInv, Coherent, Effected, NoneFailed, Replays, Adds
  <1> QED
    BY <1>1, <1>3, <1>4, <1>5, <1>6, <1>7 DEF Next

\* Answers, events and what callers were told agree in every reachable state.
LEMMA SpineInvariant == Spec => []SpineInv
  BY InitSpine, NextSpine, PTL DEF Spec

(***************************************************************************)
(* What the worlds promise                                                 *)
(***************************************************************************)

\* A call made to fail by inject_failure leaves nothing behind, neither event nor
\* stored answer, for every handler: the raise comes after all the writes, and
\* the transaction takes them back.
THEOREM FailedCallsVanish == Spec => []FailuresLeaveNoTrace
  <1>1. SpineInv => FailuresLeaveNoTrace
    BY DEF SpineInv, NoneFailed, Coherent, FailuresLeaveNoTrace
  <1> QED
    BY <1>1, SpineInvariant, PTL

\* An idempotency key stands for one event of one call, however often and with
\* whatever it is used again.
KeysTakeEffectOnce ==
  \A i, j \in DOMAIN log : \A c \in log[i].by, d \in log[j].by :
    c.key = d.key => c = d /\ i = j

THEOREM OneEffectPerKey == Spec => []KeysTakeEffectOnce
  <1>1. SpineInv => KeysTakeEffectOnce
    <2> SUFFICES ASSUME SpineInv,
                        NEW i \in DOMAIN log, NEW j \in DOMAIN log,
                        NEW c \in log[i].by, NEW d \in log[j].by,
                        c.key = d.key
                 PROVE  c = d /\ i = j
      BY DEF KeysTakeEffectOnce
    <2>1. \A k \in DOMAIN log : \A x \in log[k].by : answers[x.key] = {Answer(x, k)}
      BY DEF SpineInv, Coherent
    <2>2. answers[c.key] = {Answer(c, i)} /\ answers[d.key] = {Answer(d, j)}
      BY <2>1
    <2>3. Answer(c, i) = Answer(d, j)
      BY <2>2
    <2> QED
      BY <2>3 DEF Answer
  <1> QED
    BY <1>1, SpineInvariant, PTL

\* Whoever was told of success was told of an event that is in the log, and two
\* answers to the same key are the same answer, also across retries.
AnswersAreEffects ==
  \A x, y \in told :
    /\ x.answer \in DOMAIN log /\ x.call \in log[x.answer].by
    /\ x.call.key = y.call.key => x = y

THEOREM ToldTheTruth == Spec => []AnswersAreEffects
  <1>1. SpineInv => AnswersAreEffects
    <2> SUFFICES ASSUME SpineInv, NEW x \in told, NEW y \in told
                 PROVE  /\ x.answer \in DOMAIN log /\ x.call \in log[x.answer].by
                        /\ x.call.key = y.call.key => x = y
      BY DEF AnswersAreEffects
    <2>1. x \in Effected /\ y \in Effected /\ Coherent(answers, log)
      BY DEF SpineInv
    <2>2. answers[x.call.key] = {x} /\ answers[y.call.key] = {y}
      BY <2>1, EffectedAnswers
    <2> QED
      BY <2>1, <2>2 DEF Effected
  <1> QED
    BY <1>1, SpineInvariant, PTL

\* The worlds implement KeyedEffects: retries, conflicts, injected failures,
\* answers nobody hears and scheduled injections never make a mutation take
\* effect twice, and callers are only ever told of effects.
THEOREM WorldsKeepTheirPromise == Spec => ExactlyOnce
  <1>1. Init => Promised!Init
    BY DEF Init, Promised!Init
  <1>2. SpineInv /\ [Next]_worldVars => [Promised!Next]_<<Effected, told>>
    <2> SUFFICES ASSUME SpineInv, [Next]_worldVars
                 PROVE  [Promised!Next]_<<Effected, told>>
      OBVIOUS
    <2>1. ASSUME NEW t \in tx, MayCommit(t), Install(t),
                 told' = told \cup Heard(t) \/ told' = told
          PROVE  [Promised!Next]_<<Effected, told>>
      <3>1. PICK a : Heard(t) = {a}
        BY <2>1, Installed
      <3>2. a \in Effected'
        BY <2>1, <3>1, Installed
      <3>3. CASE Effected' = Effected
        <4>1. CASE told' = told
          BY <3>3, <4>1
        <4>2. CASE told' = told \cup {a}
          <5>1. Promised!Tell
            BY <3>2, <3>3, <4>2 DEF Promised!Tell, Effected
          <5> QED
            BY <5>1 DEF Promised!Next
        <4> QED
          BY <2>1, <3>1, <4>1, <4>2
      <3>4. ASSUME NEW e \in [call : Call, answer : Nat],
                   e \notin Effected,
                   \A x \in Effected : x.call.key # e.call.key,
                   Effected' = Effected \cup {e},
                   Heard(t) = {e}
            PROVE  [Promised!Next]_<<Effected, told>>
        <4>1. told' \in {told, told \cup {e}}
          BY <2>1, <3>4
        <4>2. e \in Effected' \ Effected
          BY <3>4
        <4>3. Promised!Take
          BY <3>4, <4>1, <4>2 DEF Promised!Take, Promised!Answered, Effected
        <4> QED
          BY <4>3 DEF Promised!Next
      <3> QED
        BY <2>1, <3>3, <3>4, Installed
    <2>2. CASE CommitAnswered
      BY <2>1, <2>2 DEF CommitAnswered
    <2>3. CASE CommitUnheard
      BY <2>1, <2>3 DEF CommitUnheard
    <2>4. CASE Inject
      <3>1. PICK r \in Injected(doc) : log' = Append(log, Entry({}, r))
        BY <2>4 DEF Inject
      <3>2. /\ DOMAIN log' = DOMAIN log \cup {Len(log) + 1}
            /\ \A i \in DOMAIN log : log'[i] = log[i]
            /\ log'[Len(log) + 1].by = {}
        BY <3>1, CoherentAfterInjection DEF SpineInv, Entry
      <3>3. Effected' = Effected
        <4>1. Effected \subseteq Effected'
          BY <3>2 DEF Effected
        <4>2. ASSUME NEW e \in Effected'
              PROVE  e \in Effected
          <5>1. e \in [call : Call, answer : DOMAIN log'] /\ e.call \in log'[e.answer].by
            BY <4>2 DEF Effected
          <5>2. e.answer \in DOMAIN log
            BY <3>2, <5>1
          <5> QED
            BY <3>2, <5>1, <5>2 DEF Effected
        <4> QED
          BY <4>1, <4>2
      <3> QED
        BY <2>4, <3>3 DEF Inject
    <2>5. CASE Rollback \/ UNCHANGED worldVars \/ \E c \in Offered(doc) \cap Call : Execute(c)
      <3>1. UNCHANGED <<log, told>>
        BY <2>5 DEF Rollback, worldVars, Execute
      <3> QED
        BY <3>1 DEF Effected
    <2> QED
      BY <2>2, <2>3, <2>4, <2>5 DEF Next
  <1> QED
    BY <1>1, <1>2, SpineInvariant, PTL DEF Spec, ExactlyOnce, Promised!Spec, Effected

=============================================================================
