--------------------------- MODULE TinyChatProofs ---------------------------
(***************************************************************************)
(* TinyChat for any number of connections, topics and strings: the state   *)
(* is well typed, sem_lock is a lock, and every conversation string has    *)
(* exactly one owner.                                                      *)
(***************************************************************************)
EXTENDS TinyChat, TLAPS

(* The text append_strings or serve_form reads is a sequence of entries,   *)
(* whatever has happened to the string in the meantime.                    *)
LEMMA ContentsType ==
  ASSUME TypeOK, NEW p \in Ptrs \cup {NULL}, NEW c \in Contents(p)
  PROVE  c \in Seq(Entries)
  <1>1. CASE p = NULL
    BY <1>1 DEF Contents
  <1>2. CASE p # NULL
    <2>1. heap[p] \in Seq(Entries)
      BY <1>2 DEF TypeOK
    <2>2. <<Garbled>> \in Seq(Entries)
      BY DEF Entries
    <2>3. QED
      BY <1>2, <2>1, <2>2 DEF Contents
  <1>3. QED
    BY <1>1, <1>2

(* What a handler builds from it is a sequence of entries too.             *)
LEMMA AppendedType ==
  ASSUME TypeOK, NEW t \in Threads, NEW old \in Seq(Entries)
  PROVE  Appended(t, old) \in Seq(Entries)
  <1>1. Append(old, t) \in Seq(Entries) /\ old \o old \in Seq(Entries)
           /\ <<>> \in Seq(Entries)
    BY DEF Entries
  <1>2. QED
    BY <1>1 DEF Appended

(* The section a started thread works on is a topic, or its request names  *)
(* none.                                                                   *)
LEMMA TopicType ==
  ASSUME TypeOK, NEW t \in Threads, pc[t] # "start"
  PROVE  Topic(t) \in Topics \cup {NULL}
  BY DEF TypeOK, Topic, Requests

(* Every step of doit keeps the variables in their types.                  *)
LEMMA TypeStep == TypeOK /\ [Next]_vars => TypeOK'
  <1> SUFFICES ASSUME TypeOK, [Next]_vars PROVE TypeOK'
    OBVIOUS
  <1> USE NullAssumption, ClientsAssumption DEF PCs, Goto
  <1>1. CASE UNCHANGED vars
    BY <1>1 DEF TypeOK, vars
  <1>2. ASSUME NEW t \in Threads, Accept(t) PROVE TypeOK'
    BY <1>2 DEF TypeOK, Accept
  <1>3. ASSUME NEW t \in Threads, Crash(t) \/ NullCrash(t) PROVE TypeOK'
    BY <1>3 DEF TypeOK, Crash, NullCrash, Die
  <1>4. ASSUME NEW t \in Threads, Step(t) PROVE TypeOK'
    <2>1. CASE ReadLine(t)
      BY <2>1 DEF TypeOK, ReadLine
    <2>2. CASE ReadHeaders(t)
      BY <2>2 DEF TypeOK, ReadHeaders
    <2>3. CASE P(t)
      BY <2>3 DEF TypeOK, P
    <2>4. CASE dictionary_get(t)
      <3>1. Topic(t) \in Topics \cup {NULL}
        BY <2>4, TopicType DEF dictionary_get
      <3>2. Found(Topic(t)) \in Ptrs \cup {NULL} /\ raced' \in SUBSET Topics
        BY <2>4, <3>1 DEF TypeOK, dictionary_get, Found
      <3>3. QED
        BY <2>4, <3>2 DEF TypeOK, dictionary_get
    <2>5. CASE V_get(t)
      BY <2>5 DEF TypeOK, V_get
    <2>6. CASE Build(t)
      <3>1. PICK p \in Ptrs \ live, old \in Contents(held[t]) :
               /\ heap' = [heap EXCEPT ![p] = Appended(t, old)]
               /\ live' = live \cup {p}
               /\ fresh' = [fresh EXCEPT ![t] = p]
        BY <2>6 DEF Build
      <3>2. held[t] \in Ptrs \cup {NULL}
        BY DEF TypeOK
      <3>3. Appended(t, old) \in Seq(Entries)
        BY <3>2, ContentsType, AppendedType
      <3>4. QED
        BY <2>6, <3>1, <3>3 DEF TypeOK, Build
    <2>7. CASE ReadAgain(t)
      BY <2>7 DEF TypeOK, ReadAgain
    <2>8. CASE JustServe(t)
      BY <2>8 DEF TypeOK, JustServe
    <2>9. CASE dictionary_set_free(t)
      BY <2>9 DEF TypeOK, dictionary_set_free
    <2>10. CASE dictionary_set_store(t)
      <3>1. dict' \in [Topics -> Ptrs \cup {NULL}]
        BY <2>10 DEF TypeOK, dictionary_set_store
      <3>2. QED
        BY <2>10, <3>1 DEF TypeOK, dictionary_set_store
    <2>11. CASE V_set(t)
      <3>1. CASE req[t].kind = "join"
        <4>1. round' = [round EXCEPT ![t] = 3] /\ pc' = [pc EXCEPT ![t] = "P_get"]
          BY <2>11, <3>1 DEF V_set
        <4>2. round' \in [Threads -> 1..3] /\ pc' \in [Threads -> PCs]
          BY <4>1 DEF TypeOK
        <4>3. QED
          BY <2>11, <4>1, <4>2 DEF TypeOK, V_set
      <3>2. CASE req[t].kind # "join"
        BY <2>11, <3>2 DEF TypeOK, V_set
      <3>3. QED
        BY <3>1, <3>2
    <2>12. CASE serve_form(t)
      <3>1. PICK c \in Contents(held[t]) : reply' = [reply EXCEPT ![t] = Append(@, c)]
        BY <2>12 DEF serve_form
      <3>2. held[t] \in Ptrs \cup {NULL}
        BY DEF TypeOK
      <3>3. c \in Seq(Entries)
        BY <3>2, ContentsType
      <3>4. reply' \in [Threads -> Seq(Seq(Entries))]
        BY <3>1, <3>3 DEF TypeOK
      <3>5. round' \in [Threads -> 1..3] /\ pc' \in [Threads -> PCs]
        <4>1. CASE req[t].kind = "join" /\ round[t] = 2
          <5>1. round' = [round EXCEPT ![t] = 3] /\ pc' = [pc EXCEPT ![t] = "P_get"]
            BY <2>12, <4>1 DEF serve_form
          <5>2. QED
            BY <5>1 DEF TypeOK
        <4>2. CASE ~(req[t].kind = "join" /\ round[t] = 2)
          BY <2>12, <4>2 DEF TypeOK, serve_form
        <4>3. QED
          BY <4>1, <4>2
      <3>6. \A u \in Threads : pc'[u] # "start" => req'[u] \in Requests
        BY <2>12 DEF TypeOK, serve_form
      <3>7. QED
        BY <2>12, <3>4, <3>5, <3>6 DEF TypeOK, serve_form
    <2>13. CASE Connect(t)
      <3>1. CASE req[t].host # "self"
        BY <2>13, <3>1 DEF TypeOK, Connect
      <3>2. CASE req[t].host = "self"
        <4>1. PICK u \in Threads :
                /\ pc[u] = "start"
                /\ req' = [req EXCEPT ![u] =
                     [kind |-> "conversation", topic |-> req[t].topic, lacks |-> "nothing",
                      host |-> "self", rtopic |-> NULL, client |-> t]]
                /\ pc' = [pc EXCEPT ![t] = "await", ![u] = "line"]
          BY <2>13, <3>2 DEF Connect
        <4>2. req[t] \in Requests
          BY <2>13 DEF TypeOK, Connect
        <4>3. [kind |-> "conversation", topic |-> req[t].topic, lacks |-> "nothing",
               host |-> "self", rtopic |-> NULL, client |-> t] \in Requests
          BY <4>2 DEF Requests, Kinds, Hosts, Lacks
        <4>4. QED
          BY <2>13, <4>1, <4>2, <4>3 DEF TypeOK, Connect
      <3>3. QED
        BY <3>1, <3>2
    <2>14. CASE Await(t)
      <3>1. CASE req[t].host = "request"
        <4>1. round' = [round EXCEPT ![t] = 2] /\ pc' = [pc EXCEPT ![t] = "P_get"]
          BY <2>14, <3>1 DEF Await
        <4>2. round' \in [Threads -> 1..3] /\ pc' \in [Threads -> PCs]
          BY <4>1 DEF TypeOK
        <4>3. QED
          BY <2>14, <4>1, <4>2 DEF TypeOK, Await
      <3>2. CASE req[t].host # "request"
        BY <2>14, <3>2 DEF TypeOK, Await
      <3>3. QED
        BY <3>1, <3>2
    <2>15. CASE Close(t)
      BY <2>15 DEF TypeOK, Close
    <2>16. QED
      BY <1>3, <1>4, <2>1, <2>2, <2>3, <2>4, <2>5, <2>6, <2>7, <2>8, <2>9, <2>10,
         <2>11, <2>12, <2>13, <2>14, <2>15 DEF Step
  <1>5. QED
    BY <1>1, <1>2, <1>3, <1>4 DEF Next

(* The server starts with no connection, no topic and no string. *)
LEMMA TypeInit == Init => TypeOK
  <1> SUFFICES ASSUME Init PROVE TypeOK
    OBVIOUS
  <1>1. pc \in [Threads -> PCs] /\ round \in [Threads -> 1..3]
    BY DEF Init, PCs
  <1>2. reply \in [Threads -> Seq(Seq(Entries))] /\ heap \in [Ptrs -> Seq(Entries)]
    BY DEF Init
  <1>3. QED
    BY <1>1, <1>2 DEF Init, TypeOK

(* The state of the server is well typed, for any set of connections,      *)
(* topics, strings and requests.                                           *)
THEOREM TypeCorrect == Spec => []TypeOK
  BY TypeInit, TypeStep, PTL DEF Spec

-----------------------------------------------------------------------------
(* The lock *)

Section == {"get", "V_get", "free", "store", "V_set"}

(* A step that leaves the semaphore alone and moves its thread within or   *)
(* outside the section keeps the lock right.                               *)
LEMMA LockKept ==
  ASSUME TypeOK, LockInv, NEW t \in Threads, NEW label,
         pc' = [pc EXCEPT ![t] = label], sem_lock' = sem_lock,
         pc[t] \in Section <=> label \in Section
  PROVE  LockInv'
  <1>1. \A u \in Threads : InSection(u)' <=> InSection(u)
    BY DEF TypeOK, InSection, Section
  <1>2. QED
    BY <1>1 DEF LockInv

(* Every P is matched by its V on every path through doit.                 *)
LEMMA LockStep == TypeOK /\ LockInv /\ [Next]_vars => LockInv'
  <1> SUFFICES ASSUME TypeOK, LockInv, [Next]_vars PROVE LockInv'
    OBVIOUS
  <1> USE DEF Goto, Section
  <1>1. CASE UNCHANGED vars
    BY <1>1 DEF LockInv, InSection, vars
  <1>2. ASSUME NEW t \in Threads, Accept(t) PROVE LockInv'
    BY <1>2, LockKept DEF Accept
  <1>3. ASSUME NEW t \in Threads, Crash(t) \/ NullCrash(t) PROVE LockInv'
    BY <1>3 DEF LockInv, InSection, Crash, NullCrash, Die
  <1>4. ASSUME NEW t \in Threads, Step(t) PROVE LockInv'
    <2>1. CASE ReadLine(t)
      BY <2>1, LockKept DEF ReadLine
    <2>2. CASE ReadHeaders(t)
      BY <2>2, LockKept DEF ReadHeaders
    <2>3. CASE P(t)
      <3>1. \A u \in Threads : ~InSection(u)
        BY <2>3 DEF P, LockInv
      <3>2. InSection(t)' /\ \A u \in Threads \ {t} : ~InSection(u)'
        BY <2>3, <3>1 DEF P, InSection, TypeOK
      <3>3. QED
        BY <2>3, <3>2 DEF P, LockInv
    <2>4. CASE dictionary_get(t)
      BY <2>4, LockKept DEF dictionary_get
    <2>5. CASE V_get(t)
      <3>1. \A u \in Threads : ~InSection(u)'
        BY <2>5 DEF V_get, InSection, LockInv, TypeOK
      <3>2. QED
        BY <2>5, <3>1 DEF V_get, LockInv
    <2>6. CASE Build(t)
      BY <2>6, LockKept DEF Build
    <2>7. CASE ReadAgain(t)
      BY <2>7, LockKept DEF ReadAgain
    <2>8. CASE JustServe(t)
      BY <2>8, LockKept DEF JustServe
    <2>9. CASE dictionary_set_free(t)
      BY <2>9, LockKept DEF dictionary_set_free
    <2>10. CASE dictionary_set_store(t)
      BY <2>10, LockKept DEF dictionary_set_store
    <2>11. CASE V_set(t)
      <3>1. \A u \in Threads : ~InSection(u)'
        BY <2>11 DEF V_set, InSection, LockInv, TypeOK
      <3>2. QED
        BY <2>11, <3>1 DEF V_set, LockInv
    <2>12. CASE serve_form(t)
      BY <2>12, LockKept DEF serve_form
    <2>13. CASE Connect(t)
      <3>1. \A u \in Threads : InSection(u)' <=> InSection(u)
        BY <2>13 DEF Connect, InSection, TypeOK
      <3>2. QED
        BY <2>13, <3>1 DEF Connect, LockInv
    <2>14. CASE Await(t)
      BY <2>14, LockKept DEF Await
    <2>15. CASE Close(t)
      BY <2>15, LockKept DEF Close
    <2>16. QED
      BY <1>3, <1>4, <2>1, <2>2, <2>3, <2>4, <2>5, <2>6, <2>7, <2>8, <2>9, <2>10,
         <2>11, <2>12, <2>13, <2>14, <2>15 DEF Step
  <1>5. QED
    BY <1>1, <1>2, <1>3, <1>4 DEF Next

(* sem_lock is a mutual-exclusion lock on global_dic, and no path through  *)
(* a handler keeps it.                                                     *)
THEOREM LockCorrect == Spec => []LockInv
  <1>1. Init => LockInv
    BY DEF Init, LockInv, InSection
  <1>2. QED
    BY <1>1, LockStep, TypeCorrect, PTL DEF Spec

-----------------------------------------------------------------------------
(* Ownership *)

(* dictionary_set compares its key before it stores a value: a request     *)
(* without a topic does not get that far.                                  *)
Keyed == \A t \in Threads : pc[t] = "store" => Topic(t) \in Topics

OwnerInv == TypeOK /\ LockInv /\ Ownership /\ Keyed

(* A step that touches no string, no slot and no handler's private string  *)
(* keeps ownership.                                                        *)
LEMMA OwnershipKept ==
  ASSUME OwnerInv, NEW t \in Threads, NEW label,
         pc' = [pc EXCEPT ![t] = label], UNCHANGED <<fresh, dict, live>>,
         \A u \in Threads : pc[u] = "store" => Topic(u)' = Topic(u),
         pc[t] \in {"P_set", "free", "store"} <=> label \in {"P_set", "free", "store"},
         pc[t] # "store", label # "store"
  PROVE  Ownership'
  <1>1. \A k \in Topics : Stale(k)' <=> Stale(k)
    BY DEF OwnerInv, TypeOK, Stale
  <1>2. PrivateUntilStored'
    BY <1>1 DEF OwnerInv, TypeOK, Ownership, PrivateUntilStored
  <1>3. DictionaryOwnsValues'
    BY <1>1 DEF OwnerInv, Ownership, DictionaryOwnsValues
  <1>4. NoLeak'
    BY <1>1 DEF OwnerInv, Ownership, NoLeak
  <1>5. QED
    BY <1>2, <1>3, <1>4 DEF Ownership

(* append_strings returns a string nobody owns, and its caller owns it.    *)
LEMMA BuildOwns == ASSUME OwnerInv, NEW t \in Threads, Build(t) PROVE Ownership'
  <1> USE NullAssumption DEF Goto
  <1>1. PICK p \in Ptrs \ live :
          live' = live \cup {p} /\ fresh' = [fresh EXCEPT ![t] = p]
    BY DEF Build
  <1>2. pc[t] = "branch" /\ pc' = [pc EXCEPT ![t] = "P_set"]
          /\ UNCHANGED <<req, round, dict>>
    BY DEF Build
  <1>3. \A k \in Topics : Stale(k)' <=> Stale(k)
    BY <1>2 DEF OwnerInv, TypeOK, Stale, Topic
  <1>4. \A k \in Topics : dict[k] = p => Stale(k)
    BY DEF OwnerInv, Ownership, DictionaryOwnsValues
  <1>5. \A u \in Threads : fresh[u] # p
    BY DEF OwnerInv, Ownership, PrivateUntilStored
  <1>6. fresh[t] = NULL
    BY <1>2 DEF OwnerInv, Ownership, PrivateUntilStored
  <1>7. \A u \in Threads : fresh'[u] = IF u = t THEN p ELSE fresh[u]
    BY <1>1 DEF OwnerInv, TypeOK
  <1>8. \A u \in Threads : pc'[u] = IF u = t THEN "P_set" ELSE pc[u]
    BY <1>2 DEF OwnerInv, TypeOK
  <1>9. PrivateUntilStored'
    BY <1>1, <1>2, <1>3, <1>4, <1>5, <1>7, <1>8
       DEF OwnerInv, Ownership, PrivateUntilStored
  <1>10. DictionaryOwnsValues'
    BY <1>1, <1>2, <1>3 DEF OwnerInv, Ownership, DictionaryOwnsValues
  <1>11. NoLeak'
    <2> SUFFICES ASSUME NEW q \in live'
                 PROVE  \/ \E k \in Topics : dict'[k] = q /\ ~Stale(k)'
                        \/ \E u \in Threads : fresh'[u] = q
      BY DEF NoLeak
    <2>1. CASE q = p
      BY <2>1, <1>7
    <2>2. CASE q \in live
      <3>1. CASE \E k \in Topics : dict[k] = q /\ ~Stale(k)
        BY <3>1, <1>2, <1>3
      <3>2. CASE \E u \in Threads : fresh[u] = q
        <4>1. PICK u \in Threads : fresh[u] = q
          BY <3>2
        <4>2. u # t
          BY <4>1, <2>2, <1>6 DEF OwnerInv, TypeOK
        <4>3. QED
          BY <4>1, <4>2, <1>7
      <3>3. QED
        BY <2>2, <3>1, <3>2 DEF OwnerInv, Ownership, NoLeak
    <2>3. QED
      BY <1>1, <2>1, <2>2
  <1>12. QED
    BY <1>9, <1>10, <1>11 DEF Ownership

(* The lock makes the slot being overwritten the only stale one.           *)
LEMMA OneStale ==
  ASSUME OwnerInv, NEW t \in Threads, InSection(t)
  PROVE  \A k \in Topics : Stale(k) <=> pc[t] = "store" /\ Topic(t) = k
  BY DEF OwnerInv, LockInv, InSection, Stale

(* free_value takes one string from one slot.                              *)
LEMMA FreeOwns ==
  ASSUME OwnerInv, NEW t \in Threads, dictionary_set_free(t) PROVE Ownership'
  <1> USE NullAssumption DEF Goto
  <1>1. pc[t] = "free" /\ pc' = [pc EXCEPT ![t] = "store"]
          /\ live' = live \ {dict[Topic(t)]}
          /\ UNCHANGED <<req, round, dict, fresh>>
    BY DEF dictionary_set_free
  <1>2. \A k \in Topics : ~Stale(k)
    BY <1>1, OneStale DEF InSection
  <1>3. \A k \in Topics : Stale(k)' <=> Topic(t) = k
    BY <1>1, <1>2 DEF OwnerInv, TypeOK, Stale, Topic
  <1>4. Topic(t) \in Topics
    BY <1>1, TopicType DEF OwnerInv, dictionary_set_free, PassesNull
  <1>5. \A u \in Threads : pc'[u] = IF u = t THEN "store" ELSE pc[u]
    BY <1>1 DEF OwnerInv, TypeOK
  <1>6. PrivateUntilStored'
    BY <1>1, <1>2, <1>3, <1>4, <1>5 DEF OwnerInv, Ownership, PrivateUntilStored
  <1>7. DictionaryOwnsValues'
    BY <1>1, <1>2, <1>3, <1>4 DEF OwnerInv, Ownership, DictionaryOwnsValues
  <1>8. NoLeak'
    BY <1>1, <1>2, <1>3, <1>4 DEF OwnerInv, Ownership, NoLeak
  <1>9. QED
    BY <1>6, <1>7, <1>8 DEF Ownership

(* The dictionary takes ownership of the string it is given.               *)
LEMMA StoreOwns ==
  ASSUME OwnerInv, NEW t \in Threads, dictionary_set_store(t) PROVE Ownership'
  <1> USE NullAssumption DEF Goto
  <1>1. pc[t] = "store" /\ pc' = [pc EXCEPT ![t] = "V_set"]
          /\ dict' = [dict EXCEPT ![Topic(t)] = fresh[t]]
          /\ fresh' = [fresh EXCEPT ![t] = NULL]
          /\ UNCHANGED <<req, round, live>>
    BY DEF dictionary_set_store
  <1>2. \A k \in Topics : Stale(k) <=> Topic(t) = k
    BY <1>1, OneStale DEF InSection
  <1>3. Topic(t) \in Topics
    BY <1>1 DEF OwnerInv, Keyed
  <1>4. \A u \in Threads : pc'[u] = IF u = t THEN "V_set" ELSE pc[u]
    BY <1>1 DEF OwnerInv, TypeOK
  <1>5. \A u \in Threads : fresh'[u] = IF u = t THEN NULL ELSE fresh[u]
    BY <1>1 DEF OwnerInv, TypeOK
  <1>6. \A k \in Topics : dict'[k] = IF k = Topic(t) THEN fresh[t] ELSE dict[k]
    BY <1>1 DEF OwnerInv, TypeOK
  <1>7. \A u \in Threads \ {t} : pc[u] # "store"
    BY <1>1 DEF OwnerInv, LockInv, InSection
  <1>8. \A k \in Topics : ~Stale(k)'
    BY <1>4, <1>7 DEF Stale
  <1>9. fresh[t] # NULL /\ fresh[t] \in live
    BY <1>1 DEF OwnerInv, Ownership, PrivateUntilStored
  <1>10. \A k \in Topics : dict[k] = fresh[t] => k = Topic(t)
    BY <1>2, <1>9 DEF OwnerInv, Ownership, PrivateUntilStored
  <1>11. PrivateUntilStored'
    BY <1>1, <1>2, <1>4, <1>5, <1>6, <1>8, <1>9
       DEF OwnerInv, Ownership, PrivateUntilStored
  <1>12. DictionaryOwnsValues'
    BY <1>1, <1>2, <1>3, <1>6, <1>8, <1>9, <1>10
       DEF OwnerInv, Ownership, DictionaryOwnsValues
  <1>13. NoLeak'
    BY <1>1, <1>2, <1>3, <1>5, <1>6, <1>8, <1>9 DEF OwnerInv, Ownership, NoLeak
  <1>14. QED
    BY <1>11, <1>12, <1>13 DEF Ownership

(* The key stays with the handler while it is in dictionary_set.           *)
LEMMA KeyedStep == TypeOK /\ Keyed /\ [Next]_vars => Keyed'
  <1> SUFFICES ASSUME TypeOK, Keyed, [Next]_vars, NEW u \in Threads, pc'[u] = "store"
               PROVE  Topic(u)' \in Topics
    BY DEF Keyed
  <1> USE DEF Goto
  <1>1. ASSUME pc[u] = "store", req'[u] = req[u], round'[u] = round[u] PROVE Topic(u)' \in Topics
    BY <1>1 DEF Keyed, Topic
  <1>2. CASE UNCHANGED <<pc, req, round>>
    BY <1>1, <1>2
  <1>3. ASSUME NEW t \in Threads, dictionary_set_free(t) PROVE Topic(u)' \in Topics
    <2>1. CASE u = t
      <3>1. Topic(t) \in Topics
        BY <1>3, TopicType DEF dictionary_set_free, PassesNull
      <3>2. QED
        BY <1>3, <2>1, <3>1 DEF dictionary_set_free, Topic
    <2>2. CASE u # t
      BY <1>1, <1>3, <2>2 DEF dictionary_set_free, TypeOK
    <2>3. QED
      BY <2>1, <2>2
  <1>4. ASSUME NEW t \in Threads,
               \/ ReadLine(t) \/ ReadHeaders(t) \/ P(t) \/ dictionary_get(t) \/ V_get(t)
               \/ Build(t) \/ JustServe(t) \/ dictionary_set_store(t) \/ Close(t)
        PROVE  Topic(u)' \in Topics
    <2>1. UNCHANGED <<req, round>>
      BY <1>4 DEF ReadLine, ReadHeaders, P, dictionary_get, V_get, Build, JustServe,
                  dictionary_set_store, Close
    <2>2. pc[u] = "store"
      BY <1>4 DEF TypeOK, ReadLine, ReadHeaders, P, dictionary_get, V_get, Build, JustServe,
                  dictionary_set_store, Close
    <2>3. QED
      BY <1>1, <2>1, <2>2
  <1>5. ASSUME NEW t \in Threads, Accept(t) \/ Connect(t) PROVE Topic(u)' \in Topics
    <2>1. pc[u] = "store" /\ req'[u] = req[u] /\ UNCHANGED round
      BY <1>5 DEF TypeOK, Accept, Connect
    <2>2. QED
      BY <1>1, <2>1
  <1>6. ASSUME NEW t \in Threads, ReadAgain(t) \/ V_set(t) \/ serve_form(t) \/ Await(t)
        PROVE  Topic(u)' \in Topics
    <2>1. u # t /\ pc[u] = "store" /\ UNCHANGED req
      BY <1>6 DEF TypeOK, ReadAgain, V_set, serve_form, Await
    <2>2. round'[u] = round[u]
      BY <1>6, <2>1 DEF TypeOK, ReadAgain, V_set, serve_form, Await
    <2>3. QED
      BY <1>1, <2>1, <2>2
  <1>7. QED
    BY <1>2, <1>3, <1>4, <1>5, <1>6 DEF Next, Step, vars, Crash, NullCrash, Die

(* Every step of every handler leaves each string with one owner.          *)
LEMMA OwnershipStep == OwnerInv /\ [Next]_vars => Ownership'
  <1> SUFFICES ASSUME OwnerInv, [Next]_vars PROVE Ownership'
    OBVIOUS
  <1> USE DEF Goto
  <1>1. ASSUME UNCHANGED <<pc, req, round, fresh, dict, live>> PROVE Ownership'
    <2>1. \A k \in Topics : Stale(k)' <=> Stale(k)
      BY <1>1 DEF Stale, Topic
    <2>2. QED
      BY <1>1, <2>1 DEF OwnerInv, Ownership, PrivateUntilStored,
                        DictionaryOwnsValues, NoLeak
  <1>2. ASSUME NEW t \in Threads, pc[t] # "store",
               \A u \in Threads \ {t} : round'[u] = round[u],
               \A u \in Threads : pc[u] # "start" => req'[u] = req[u]
        PROVE  \A u \in Threads : pc[u] = "store" => Topic(u)' = Topic(u)
    BY <1>2 DEF Topic
  <1>3. ASSUME NEW t \in Threads, Accept(t) PROVE Ownership'
    <2>1. \A u \in Threads : pc[u] # "start" => req'[u] = req[u]
      BY <1>3 DEF Accept, OwnerInv, TypeOK
    <2>2. \A u \in Threads : pc[u] = "store" => Topic(u)' = Topic(u)
      BY <1>2, <1>3, <2>1 DEF Accept
    <2>3. QED
      BY <1>3, <2>2, OwnershipKept DEF Accept
  <1>4. ASSUME NEW t \in Threads, Step(t) PROVE Ownership'
    <2>1. CASE ReadLine(t)
      BY <2>1, <1>2, OwnershipKept DEF ReadLine
    <2>2. CASE ReadHeaders(t)
      BY <2>2, <1>2, OwnershipKept DEF ReadHeaders
    <2>3. CASE P(t)
      BY <2>3, <1>2, OwnershipKept DEF P
    <2>4. CASE dictionary_get(t)
      BY <2>4, <1>2, OwnershipKept DEF dictionary_get
    <2>5. CASE V_get(t)
      BY <2>5, <1>2, OwnershipKept DEF V_get
    <2>6. CASE Build(t)
      BY <2>6, BuildOwns
    <2>7. CASE ReadAgain(t)
      <3>1. \A u \in Threads \ {t} : round'[u] = round[u]
        BY <2>7 DEF ReadAgain, OwnerInv, TypeOK
      <3>2. \A u \in Threads : pc[u] = "store" => Topic(u)' = Topic(u)
        BY <2>7, <3>1, <1>2 DEF ReadAgain
      <3>3. QED
        BY <2>7, <3>2, OwnershipKept DEF ReadAgain
    <2>8. CASE JustServe(t)
      BY <2>8, <1>2, OwnershipKept DEF JustServe
    <2>9. CASE dictionary_set_free(t)
      BY <2>9, FreeOwns
    <2>10. CASE dictionary_set_store(t)
      BY <2>10, StoreOwns
    <2>11. CASE V_set(t)
      <3>1. \A u \in Threads \ {t} : round'[u] = round[u]
        BY <2>11 DEF V_set, OwnerInv, TypeOK
      <3>2. \A u \in Threads : pc[u] = "store" => Topic(u)' = Topic(u)
        BY <2>11, <3>1, <1>2 DEF V_set
      <3>3. QED
        BY <2>11, <3>2, OwnershipKept DEF V_set
    <2>12. CASE serve_form(t)
      <3>1. \A u \in Threads \ {t} : round'[u] = round[u]
        BY <2>12 DEF serve_form, OwnerInv, TypeOK
      <3>2. \A u \in Threads : pc[u] = "store" => Topic(u)' = Topic(u)
        BY <2>12, <3>1, <1>2 DEF serve_form
      <3>3. QED
        BY <2>12, <3>2, OwnershipKept DEF serve_form
    <2>13. CASE Connect(t)
      <3>1. \A u \in Threads : pc[u] # "start" => req'[u] = req[u]
        BY <2>13 DEF Connect, OwnerInv, TypeOK
      <3>2. \A u \in Threads : (pc'[u] = "store") <=> (pc[u] = "store")
        BY <2>13 DEF Connect, OwnerInv, TypeOK
      <3>3. \A u \in Threads : (pc'[u] \in {"P_set", "free", "store"})
                                  <=> (pc[u] \in {"P_set", "free", "store"})
        BY <2>13 DEF Connect, OwnerInv, TypeOK
      <3>4. UNCHANGED <<round, fresh, dict, live>>
        BY <2>13 DEF Connect
      <3>5. \A u \in Threads : pc[u] = "store" => Topic(u)' = Topic(u)
        BY <3>1, <3>4 DEF Topic
      <3>6. \A k \in Topics : Stale(k)' <=> Stale(k)
        BY <3>2, <3>5 DEF Stale
      <3>7. PrivateUntilStored'
        BY <3>3, <3>4, <3>6 DEF OwnerInv, Ownership, PrivateUntilStored
      <3>8. DictionaryOwnsValues' /\ NoLeak'
        BY <3>4, <3>6 DEF OwnerInv, Ownership, DictionaryOwnsValues, NoLeak
      <3>9. QED
        BY <3>7, <3>8 DEF Ownership
    <2>14. CASE Await(t)
      <3>1. \A u \in Threads \ {t} : round'[u] = round[u]
        BY <2>14 DEF Await, OwnerInv, TypeOK
      <3>2. \A u \in Threads : pc[u] = "store" => Topic(u)' = Topic(u)
        BY <2>14, <3>1, <1>2 DEF Await
      <3>3. QED
        BY <2>14, <3>2, OwnershipKept DEF Await
    <2>15. CASE Close(t)
      BY <2>15, <1>2, OwnershipKept DEF Close
    <2>16. CASE NullCrash(t)
      BY <2>16, <1>1 DEF NullCrash, Die
    <2>17. QED
      BY <2>16, <1>4, <2>1, <2>2, <2>3, <2>4, <2>5, <2>6, <2>7, <2>8, <2>9, <2>10,
         <2>11, <2>12, <2>13, <2>14, <2>15 DEF Step
  <1>5. QED
    BY <1>1, <1>3, <1>4 DEF Next, vars, Crash, Die

(* Every conversation string has exactly one owner - a slot of global_dic  *)
(* or the handler that built it - so it is freed once and never leaked,    *)
(* however the handlers of any number of connections interleave.           *)
THEOREM OwnershipCorrect == Spec => []Ownership
  <1>1. Init => Ownership /\ Keyed
    BY DEF Init, Ownership, PrivateUntilStored, DictionaryOwnsValues, NoLeak, Keyed
  <1>2. QED
    BY <1>1, OwnershipStep, KeyedStep, TypeCorrect, LockCorrect, PTL DEF Spec, OwnerInv

(* A topic stays: no step of a handler takes a key out of global_dic.      *)
THEOREM TopicsStayCorrect == Spec => TopicsStay
  <1> DEFINE Kept == \A k \in Topics : dict[k] # NULL => dict'[k] # NULL
  <1>0. Spec => []Keyed
    <2>1. Init => Keyed
      BY DEF Init, Keyed
    <2>2. QED
      BY <2>1, KeyedStep, TypeCorrect, PTL DEF Spec
  <1>1. OwnerInv /\ [Next]_vars => [Kept]_vars
    <2> SUFFICES ASSUME OwnerInv, [Next]_vars PROVE Kept
      OBVIOUS
    <2>1. CASE UNCHANGED dict
      BY <2>1
    <2>2. ASSUME NEW t \in Threads, dictionary_set_store(t) PROVE Kept
      <3>1. fresh[t] # NULL
        BY <2>2 DEF dictionary_set_store, OwnerInv, Ownership, PrivateUntilStored
      <3>2. QED
        BY <2>2, <3>1 DEF dictionary_set_store, OwnerInv, TypeOK
    <2>3. QED
      BY <2>1, <2>2 DEF Next, Step, vars, Accept, Crash, NullCrash, Die, ReadLine, ReadHeaders, P,
           dictionary_get, V_get, Build, ReadAgain, JustServe, dictionary_set_free,
           V_set, serve_form, Connect, Await, Close
  <1>2. QED
    BY <1>0, <1>1, TypeCorrect, LockCorrect, OwnershipCorrect, PTL
       DEF Spec, OwnerInv, TopicsStay

-----------------------------------------------------------------------------
(* What the handlers read and store on a topic where no two requests       *)
(* overlap, and that the server dies only where two did.                   *)

(* Where a handler is in a read-append-replace sequence.  The welcome page *)
(* reads no conversation.                                                  *)
Phase(t) ==
  CASE pc[t] \in {"V_get", "branch"} -> "read"
    [] pc[t] \in {"P_set", "free"} -> "built"
    [] pc[t] = "store" -> "store"
    [] pc[t] = "V_set" \/ (pc[t] = "serve" /\ req[t].kind # "welcome") -> "after"
    [] OTHER -> "out"

(* Which places a request can be at, by its kind: a say and a post are     *)
(* answered once, by the last serve_form, and the welcome page goes        *)
(* straight to serve_form, with no string.                                 *)
Path(t) ==
  /\ pc[t] \in {"start", "line", "headers"} => held[t] = NULL
  /\ pc[t] = "start" => reply[t] = <<>> /\ round[t] = 1
  /\ pc[t] \notin {"start", "line", "close", "done"} =>
       req[t].kind \notin {"silent", "garbage", "unsupported"}
  /\ pc[t] \notin {"start", "line", "headers", "close", "done"} => req[t].kind # "partial"
  /\ pc[t] \in {"connect", "await"} => req[t].kind = "import"
  /\ pc[t] # "start" /\ req[t].kind = "import" /\ round[t] = 2 => req[t].host = "request"
  /\ pc[t] \notin {"start", "line", "headers"} /\ req[t].kind = "welcome" =>
       pc[t] \in {"serve", "close", "done"} /\ held[t] = NULL
  /\ pc[t] # "start" /\ req[t].kind \in {"say", "post"} /\ pc[t] \notin {"close", "done"} =>
       reply[t] = <<>>

PathInv == \A t \in Threads : Path(t)

(* Handlers that are at the same conversation have raced; the others hold  *)
(* the string that the dictionary holds.                                   *)
RaceInv ==
  /\ \A t, u \in Threads :
       Phase(t) # "out" /\ Phase(u) # "out" /\ Topic(t) = Topic(u) /\ t # u =>
         Topic(t) \in raced \cup {NULL}
  /\ \A t \in Threads :
       Phase(t) # "out" /\ Topic(t) \notin raced =>
         held[t] = Found(Topic(t)) \/ (Phase(t) = "after" /\ held[t] = NULL)

Clean(c) == Garbled \notin Says(c)
Extends(c, old) == Len(old) <= Len(c) /\ SubSeq(c, 1, Len(old)) = old

(* A say that has all its words. *)
Speaks(t) == req[t].kind = "say" /\ req[t].lacks # "words"

(* What the strings in the handlers' hands and in the dictionary hold. *)
TextInv ==
  /\ \A t \in Threads :
       Phase(t) = "built" /\ Topic(t) \notin raced /\ Found(Topic(t)) # NULL =>
         Extends(heap[fresh[t]], heap[Found(Topic(t))])
  /\ \A t \in Threads :
       Phase(t) \in {"built", "store"} /\ Topic(t) \notin raced => Clean(heap[fresh[t]])
  /\ \A t \in Threads :
       Phase(t) \in {"built", "store"} /\ Speaks(t) => t \in Says(heap[fresh[t]])
  /\ \A k \in Topics \ raced : dict[k] # NULL /\ ~Stale(k) => Clean(heap[dict[k]])

(* The entry e is in the conversation k, or in the string that is about to *)
(* become it.                                                              *)
Kept(e, k) ==
  /\ ~Stale(k) => dict[k] # NULL /\ e \in Says(heap[dict[k]])
  /\ \A u \in Threads : pc[u] = "store" /\ Topic(u) = k => e \in Says(heap[fresh[u]])

Stored(t) == Acknowledged(t) \/ (Speaks(t) /\ Phase(t) = "after")

(* What the clients have been told. *)
ReplyInv ==
  \A t \in Threads :
    pc[t] # "start" /\ req[t].topic \in Topics \ raced =>
      /\ Stored(t) => Kept(t, req[t].topic)
      /\ req[t].rtopic = req[t].topic => \A n \in 1..Len(reply[t]) : Clean(reply[t][n])

ExactInv == OwnerInv /\ PathInv /\ RaceInv /\ TextInv /\ ReplyInv

-----------------------------------------------------------------------------
(* Strings *)

(* What was in a string is in one that extends it. *)
LEMMA ExtendsSays ==
  ASSUME NEW c \in Seq(Entries), NEW old \in Seq(Entries), Extends(c, old)
  PROVE  Says(old) \subseteq Says(c)
  <1> SUFFICES ASSUME NEW n \in 1..Len(old) PROVE old[n] \in Says(c)
    BY DEF Says
  <1>1. n \in 1..Len(c) /\ c[n] = SubSeq(c, 1, Len(old))[n]
    BY DEF Extends
  <1>2. c[n] = old[n]
    BY <1>1 DEF Extends
  <1>3. QED
    BY <1>1, <1>2 DEF Says

(* append_strings keeps what it appends to, adds the entry of a say, and   *)
(* adds nothing that no client sent.                                       *)
LEMMA AppendedText ==
  ASSUME TypeOK, NEW t \in Threads, NEW old \in Seq(Entries)
  PROVE  /\ Speaks(t) => t \in Says(Appended(t, old))
         /\ Clean(old) => Clean(Appended(t, old))
         /\ Builds(t) /\ held[t] # NULL => Extends(Appended(t, old), old)
  <1> DEFINE one == Append(old, t)
             two == old \o old
  <1>1. /\ one \in Seq(Entries) /\ Len(one) = Len(old) + 1 /\ one[Len(old) + 1] = t
        /\ \A n \in 1..Len(old) : one[n] = old[n]
    BY DEF Entries
  <1>2. /\ two \in Seq(Entries) /\ Len(two) = Len(old) + Len(old)
        /\ \A n \in 1..Len(two) : two[n] = old[IF n <= Len(old) THEN n ELSE n - Len(old)]
    OBVIOUS
  <1>3. Len(old) \in Nat
    OBVIOUS
  <1>4. t \in Says(one)
    <2>1. Len(one) \in 1..Len(one) /\ one[Len(one)] = t
      BY <1>1, <1>3
    <2>2. QED
      BY <2>1 DEF Says
  <1>5. Clean(old) => Clean(one) /\ Clean(two) /\ Clean(<<>>)
    <2> HAVE Clean(old)
    <2>1. \A n \in 1..Len(old) : old[n] # Garbled
      BY DEF Clean, Says
    <2>2. \A n \in 1..Len(one) : one[n] # Garbled
      BY <1>1, <1>3, <2>1, GarbledAssumption
    <2>3. \A n \in 1..Len(two) : two[n] # Garbled
      BY <1>2, <1>3, <2>1
    <2>4. Says(<<>>) = {}
      BY DEF Says
    <2>5. QED
      BY <2>2, <2>3, <2>4 DEF Clean, Says
  <1>6. Extends(one, old) /\ Extends(two, old) /\ Extends(old, old)
    <2>1. SubSeq(one, 1, Len(old)) = old
      BY <1>1, <1>3
    <2>2. SubSeq(two, 1, Len(old)) = old
      BY <1>2, <1>3
    <2>3. SubSeq(old, 1, Len(old)) = old
      BY <1>3
    <2>4. QED
      BY <1>1, <1>2, <1>3, <2>1, <2>2, <2>3 DEF Extends
  <1>7. /\ Speaks(t) => Appended(t, old) = one
        /\ Appended(t, old) \in {one, two, old, <<>>}
        /\ req[t].kind \in {"say", "import", "post"} => Appended(t, old) \in {one, two, old}
    BY DEF Appended, Speaks
  <1>8. Builds(t) /\ held[t] # NULL => req[t].kind \in {"say", "import", "post"}
    BY DEF Builds
  <1>9. QED
    BY <1>4, <1>5, <1>6, <1>7, <1>8

-----------------------------------------------------------------------------
(* A handler moves along its sequence or out of it. *)
Moves(u) ==
  \/ Phase(u)' = "out" /\ pc[u] # "store"
  \/ /\ Topic(u)' = Topic(u) /\ req'[u] = req[u]
     /\ \/ Phase(u)' = Phase(u)
        \/ Phase(u) = "read" /\ Phase(u)' = "after" /\ req[u].kind # "say"

(* A step that changes no string and no pointer, and only moves handlers,  *)
(* keeps what the strings hold.                                            *)
LEMMA MovesKeep ==
  ASSUME RaceInv, TextInv, UNCHANGED <<held, fresh, dict, heap, live, raced>>,
         \A u \in Threads : Moves(u)
  PROVE  /\ RaceInv' /\ TextInv'
         /\ \A e, k : Kept(e, k)' <=> Kept(e, k)
  <1>1. \A u \in Threads : pc'[u] = "store" <=> pc[u] = "store"
    BY DEF Moves, Phase
  <1>2. \A u \in Threads : pc[u] = "store" => Topic(u)' = Topic(u)
    BY DEF Moves, Phase
  <1>3. \A k : Stale(k)' <=> Stale(k)
    BY <1>1, <1>2 DEF Stale
  <1>4. \A e, k : Kept(e, k)' <=> Kept(e, k)
    BY <1>1, <1>2, <1>3 DEF Kept
  <1>0. \A k : Found(k)' = Found(k)
    BY DEF Found
  <1>5. RaceInv'
    BY <1>0 DEF RaceInv, Moves
  <1>6. TextInv'
    BY <1>0, <1>3 DEF TextInv, Moves, Speaks
  <1>7. QED
    BY <1>4, <1>5, <1>6

(* A request stays what it is, and takes the path of its kind. *)
LEMMA PathStep ==
  ASSUME TypeOK, PathInv, NEW t \in Threads,
         Accept(t) \/ ReadLine(t) \/ ReadHeaders(t) \/ P(t) \/ dictionary_get(t) \/ V_get(t)
         \/ Build(t) \/ ReadAgain(t) \/ JustServe(t) \/ dictionary_set_free(t)
         \/ dictionary_set_store(t) \/ V_set(t) \/ serve_form(t) \/ Connect(t) \/ Await(t) \/ Close(t)
  PROVE  /\ PathInv'
         /\ \A u \in Threads : pc[u] # "start" => pc'[u] # "start" /\ req'[u] = req[u]
  <1> USE DEF Goto
  <1>1. ASSUME Path(t)', UNCHANGED req \/ pc[t] = "start", pc[t] # "start" => pc'[t] # "start",
               \A u \in Threads \ {t} : /\ pc'[u] = pc[u] /\ req'[u] = req[u] /\ round'[u] = round[u]
                                       /\ held'[u] = held[u] /\ reply'[u] = reply[u]
        PROVE  /\ PathInv'
               /\ \A u \in Threads : pc[u] # "start" => pc'[u] # "start" /\ req'[u] = req[u]
    <2>1. \A u \in Threads \ {t} : Path(u)'
      BY <1>1 DEF PathInv, Path
    <2>2. QED
      BY <1>1, <2>1 DEF PathInv
  <1>2. Path(t)
    BY DEF PathInv
  <1>3. CASE Accept(t)
    <2>1. /\ pc[t] = "start" /\ pc'[t] = "line" /\ UNCHANGED <<round, held, reply>>
          /\ \A u \in Threads \ {t} : pc'[u] = pc[u] /\ req'[u] = req[u]
      BY <1>3 DEF Accept, TypeOK
    <2>2. Path(t)'
      BY <1>2, <2>1 DEF Path
    <2>3. QED
      BY <1>1, <2>1, <2>2
  <1>4. CASE ReadLine(t) \/ ReadHeaders(t) \/ P(t) \/ V_get(t) \/ Close(t) \/ dictionary_set_free(t)
    <2>1. /\ UNCHANGED <<req, round, held, reply>> /\ pc[t] # "start" /\ pc'[t] # "start"
          /\ \A u \in Threads \ {t} : pc'[u] = pc[u]
      BY <1>4 DEF ReadLine, ReadHeaders, P, V_get, Close, dictionary_set_free, TypeOK
    <2>2. Path(t)'
      <3>1. CASE ReadLine(t)
        BY <1>2, <3>1 DEF ReadLine, Path, TypeOK
      <3>2. CASE ReadHeaders(t)
        BY <1>2, <3>2 DEF ReadHeaders, SendsBlankLine, Path, TypeOK
      <3>3. CASE P(t)
        BY <1>2, <3>3 DEF P, Path, TypeOK
      <3>4. CASE V_get(t) \/ Close(t) \/ dictionary_set_free(t)
        BY <1>2, <3>4 DEF V_get, Close, dictionary_set_free, Path, TypeOK
      <3>5. QED
        BY <1>4, <3>1, <3>2, <3>3, <3>4
    <2>3. QED
      BY <1>1, <2>1, <2>2
  <1>5. CASE dictionary_get(t) \/ dictionary_set_store(t)
    <2>1. /\ UNCHANGED <<req, round, reply>> /\ pc[t] \in {"get", "store"} /\ pc'[t] \in {"V_get", "V_set"}
          /\ \A u \in Threads \ {t} : pc'[u] = pc[u] /\ held'[u] = held[u]
      BY <1>5 DEF dictionary_get, dictionary_set_store, TypeOK
    <2>2. Path(t)'
      BY <1>2, <2>1 DEF Path
    <2>3. QED
      BY <1>1, <2>1, <2>2
  <1>6. CASE Build(t) \/ ReadAgain(t) \/ JustServe(t)
    <2>1. /\ UNCHANGED <<req, held, reply>> /\ pc[t] = "branch" /\ pc'[t] \in {"P_set", "P_get", "serve"}
          /\ round'[t] = round[t] \/ req[t].kind = "join"
          /\ \A u \in Threads \ {t} : pc'[u] = pc[u] /\ round'[u] = round[u]
      BY <1>6 DEF Build, ReadAgain, JustServe, TypeOK
    <2>2. Path(t)'
      BY <1>2, <2>1 DEF Path
    <2>3. QED
      BY <1>1, <2>1, <2>2
  <1>7. CASE V_set(t)
    <2>1. /\ UNCHANGED <<req, held, reply>> /\ pc[t] = "V_set" /\ pc'[t] \in {"P_get", "serve"}
          /\ round'[t] = round[t] \/ req[t].kind = "join"
          /\ \A u \in Threads \ {t} : pc'[u] = pc[u] /\ round'[u] = round[u]
      BY <1>7 DEF V_set, TypeOK
    <2>2. Path(t)'
      BY <1>2, <2>1 DEF Path
    <2>3. QED
      BY <1>1, <2>1, <2>2
  <1>8. CASE serve_form(t)
    <2>1. \A u \in Threads \ {t} : reply'[u] = reply[u] /\ pc'[u] = pc[u] /\ round'[u] = round[u]
      BY <1>8 DEF serve_form, TypeOK
    <2>2. /\ pc[t] = "serve" /\ UNCHANGED <<held, req>>
          /\ pc'[t] = "connect" => req[t].kind = "import"
          /\ req[t].kind \in {"say", "post", "welcome"} => pc'[t] = "close"
          /\ pc'[t] \in {"P_get", "connect", "close"}
          /\ round'[t] = round[t] \/ req[t].kind = "join"
      BY <1>8 DEF serve_form, TypeOK
    <2>3. Path(t)'
      BY <1>2, <2>2 DEF Path
    <2>4. QED
      BY <1>1, <2>1, <2>2, <2>3
  <1>9. CASE Connect(t)
    <2>1. pc[t] = "connect" /\ UNCHANGED <<round, held, reply>>
      BY <1>9 DEF Connect
    <2>2. CASE req[t].host # "self"
      <3>1. UNCHANGED req /\ pc'[t] = "await" /\ \A u \in Threads \ {t} : pc'[u] = pc[u]
        BY <1>9, <2>2 DEF Connect, TypeOK
      <3>2. Path(t)'
        BY <1>2, <2>1, <3>1 DEF Path
      <3>3. QED
        BY <1>1, <2>1, <3>1, <3>2
    <2>3. CASE req[t].host = "self"
      <3>1. PICK u \in Threads :
              /\ pc[u] = "start"
              /\ req' = [req EXCEPT ![u] =
                   [kind |-> "conversation", topic |-> req[t].topic, lacks |-> "nothing",
                    host |-> "self", rtopic |-> NULL, client |-> t]]
              /\ pc' = [pc EXCEPT ![t] = "await", ![u] = "line"]
        BY <1>9, <2>3 DEF Connect
      <3>2. /\ u # t /\ pc'[u] = "line" /\ req'[u].kind = "conversation" /\ pc'[t] = "await"
            /\ req'[t] = req[t]
            /\ \A v \in Threads \ {t, u} : pc'[v] = pc[v] /\ req'[v] = req[v]
        BY <2>1, <3>1 DEF TypeOK
      <3>3. ASSUME NEW v \in Threads, v \notin {t, u} PROVE Path(v)'
        BY <2>1, <3>2, <3>3 DEF PathInv, Path
      <3>4. Path(t)' /\ Path(u)'
        <4>1. Path(u)
          BY DEF PathInv
        <4>2. QED
          BY <1>2, <2>1, <3>1, <3>2, <4>1 DEF Path
      <3>5. PathInv'
        BY <3>3, <3>4 DEF PathInv
      <3>6. QED
        BY <2>1, <3>1, <3>2, <3>5
    <2>4. QED
      BY <2>2, <2>3
  <1>10. CASE Await(t)
    <2>1. /\ UNCHANGED <<req, held, reply>> /\ pc[t] = "await" /\ pc'[t] \in {"P_get", "close"}
          /\ round'[t] = round[t] \/ req[t].host = "request"
          /\ \A u \in Threads \ {t} : pc'[u] = pc[u] /\ round'[u] = round[u]
      BY <1>10 DEF Await, TypeOK
    <2>2. Path(t)'
      BY <1>2, <2>1 DEF Path
    <2>3. QED
      BY <1>1, <2>1, <2>2
  <1>11. QED
    BY <1>3, <1>4, <1>5, <1>6, <1>7, <1>8, <1>9, <1>10

(* The steps that only move a handler along. *)
LEMMA MovingSteps ==
  ASSUME TypeOK, PathInv, NEW t \in Threads,
         Accept(t) \/ ReadLine(t) \/ ReadHeaders(t) \/ P(t) \/ V_get(t) \/ ReadAgain(t)
         \/ JustServe(t) \/ V_set(t) \/ serve_form(t) \/ Connect(t) \/ Await(t) \/ Close(t)
  PROVE  /\ UNCHANGED <<held, fresh, dict, heap, live, raced, crashed>>
         /\ ~serve_form(t) => UNCHANGED reply
         /\ \A u \in Threads : Moves(u)
  <1> USE DEF Goto
  <1>0. UNCHANGED <<held, fresh, dict, heap, live, raced, crashed>> /\ (~serve_form(t) => UNCHANGED reply)
    BY DEF Accept, ReadLine, ReadHeaders, P, V_get, ReadAgain, JustServe, V_set, serve_form,
           Connect, Await, Close
  <1>1. CASE Accept(t)
    BY <1>0, <1>1 DEF Accept, TypeOK, Moves, Phase, Topic
  <1>2. CASE ReadLine(t) \/ ReadHeaders(t)
    BY <1>0, <1>2 DEF ReadLine, ReadHeaders, TypeOK, Moves, Phase, Topic
  <1>3. CASE P(t) \/ V_get(t) \/ Close(t)
    BY <1>0, <1>3 DEF P, V_get, Close, TypeOK, Moves, Phase, Topic
  <1>4. CASE ReadAgain(t)
    BY <1>0, <1>4 DEF ReadAgain, TypeOK, Moves, Phase, Topic
  <1>5. CASE JustServe(t)
    <2>1. req[t].kind # "say" /\ req[t].kind # "welcome"
      BY <1>5 DEF JustServe, Builds, PathInv, Path
    <2>2. QED
      BY <1>0, <1>5, <2>1 DEF JustServe, TypeOK, Moves, Phase, Topic
  <1>6. CASE V_set(t)
    BY <1>0, <1>6 DEF V_set, TypeOK, Moves, Phase, Topic, PathInv, Path
  <1>7. CASE serve_form(t)
    <2>1. /\ pc'[t] \in {"P_get", "connect", "close"} /\ pc[t] = "serve" /\ UNCHANGED req
          /\ \A u \in Threads \ {t} : pc'[u] = pc[u] /\ round'[u] = round[u]
      BY <1>7 DEF serve_form, TypeOK
    <2>2. QED
      BY <1>0, <2>1 DEF Moves, Phase, Topic
  <1>8. CASE Connect(t)
    <2>1. /\ \A u \in Threads : pc'[u] = pc[u] \/ (pc[u] \in {"start", "connect"} /\ pc'[u] \in {"line", "await"})
          /\ \A u \in Threads : pc[u] = pc'[u] => req'[u] = req[u]
          /\ UNCHANGED round
      BY <1>8 DEF Connect, TypeOK
    <2>2. QED
      BY <1>0, <2>1 DEF Moves, Phase, Topic
  <1>9. CASE Await(t)
    BY <1>0, <1>9 DEF Await, TypeOK, Moves, Phase, Topic
  <1>10. QED
    BY <1>0, <1>1, <1>2, <1>3, <1>4, <1>5, <1>6, <1>7, <1>8, <1>9

(* A handler that is alone on its topic reads the string that the          *)
(* dictionary holds, and nobody has freed it.                              *)
LEMMA HeldLive ==
  ASSUME OwnerInv, RaceInv, NEW t \in Threads, Phase(t) \in {"read", "after"},
         Topic(t) \notin raced, held[t] # NULL
  PROVE  /\ Topic(t) \in Topics /\ held[t] = dict[Topic(t)] /\ held[t] \in live
         /\ ~Stale(Topic(t)) /\ Contents(held[t]) = {heap[dict[Topic(t)]]}
  <1>1. pc[t] # "start" /\ pc[t] # "store"
    BY DEF Phase
  <1>2. Topic(t) \in Topics /\ held[t] = dict[Topic(t)]
    BY <1>1, TopicType DEF OwnerInv, RaceInv, Found
  <1>3. ~Stale(Topic(t))
    <2> SUFFICES ASSUME NEW u \in Threads, pc[u] = "store", Topic(u) = Topic(t) PROVE FALSE
      BY DEF Stale
    <2>1. Phase(u) = "store" /\ u # t
      BY <1>1 DEF Phase
    <2>2. QED
      BY <1>2, <2>1, NullAssumption DEF RaceInv
  <1>4. held[t] \in live
    BY <1>2, <1>3 DEF OwnerInv, Ownership, DictionaryOwnsValues
  <1>5. QED
    BY <1>2, <1>3, <1>4 DEF Contents

(* An answer on a topic without overlap shows what the dictionary holds.   *)
LEMMA ServedText ==
  ASSUME OwnerInv, PathInv, RaceInv, TextInv, NEW t \in Threads, pc[t] = "serve",
         NEW c \in Contents(held[t]), Topic(t) \notin raced
  PROVE  c = <<>> \/ (dict[Topic(t)] # NULL /\ ~Stale(Topic(t)) /\ c = heap[dict[Topic(t)]] /\ Clean(c))
  <1>1. CASE held[t] = NULL
    BY <1>1 DEF Contents
  <1>2. CASE held[t] # NULL
    <2>1. Phase(t) = "after"
      BY <1>2 DEF Phase, PathInv, Path
    <2>2. QED
      BY <1>2, <2>1, HeldLive DEF TextInv
  <1>3. QED
    BY <1>1, <1>2

(* What the clients were told stays true while a handler moves along.      *)
LEMMA MovingKeeps ==
  ASSUME ExactInv, NEW t \in Threads,
         Accept(t) \/ ReadLine(t) \/ ReadHeaders(t) \/ P(t) \/ V_get(t) \/ ReadAgain(t)
         \/ JustServe(t) \/ V_set(t) \/ serve_form(t) \/ Connect(t) \/ Await(t) \/ Close(t)
  PROVE  PathInv' /\ RaceInv' /\ TextInv' /\ ReplyInv'
  <1>1. /\ UNCHANGED <<held, fresh, dict, heap, live, raced, crashed>>
        /\ ~serve_form(t) => UNCHANGED reply
        /\ \A u \in Threads : Moves(u)
    BY MovingSteps DEF ExactInv, OwnerInv
  <1>2. RaceInv' /\ TextInv' /\ \A e, k : Kept(e, k)' <=> Kept(e, k)
    BY <1>1, MovesKeep DEF ExactInv
  <1>3. PathInv' /\ \A u \in Threads : pc[u] # "start" => pc'[u] # "start" /\ req'[u] = req[u]
    BY PathStep DEF ExactInv, OwnerInv
  <1>5. ASSUME NEW u \in Threads, reply'[u] = reply[u], pc'[u] # "start", req'[u].topic \in Topics \ raced'
        PROVE  /\ Stored(u)' => Kept(u, req[u].topic)'
               /\ req'[u].rtopic = req'[u].topic => \A n \in 1..Len(reply'[u]) : Clean(reply'[u][n])
    <2>1. CASE pc[u] = "start"
      <3>1. reply'[u] = <<>> /\ Phase(u) = "out"
        BY <1>5, <2>1 DEF ExactInv, PathInv, Path, Phase
      <3>2. Phase(u)' = "out"
        BY <1>1, <3>1 DEF Moves
      <3>3. QED
        BY <3>1, <3>2 DEF Stored, Acknowledged, Speaks
    <2>2. CASE pc[u] # "start"
      <3>1. req'[u] = req[u] /\ (Phase(u)' = "after" /\ req[u].kind = "say" => Phase(u) = "after")
        BY <1>1, <1>3, <2>2 DEF Moves
      <3>2. Stored(u)' => Stored(u)
        BY <1>5, <3>1 DEF Stored, Acknowledged, Speaks
      <3>3. QED
        BY <1>1, <1>2, <1>5, <2>2, <3>1, <3>2 DEF ExactInv, ReplyInv
    <2>3. QED
      BY <2>1, <2>2
  <1>6. CASE ~serve_form(t)
    BY <1>1, <1>2, <1>3, <1>5, <1>6 DEF ReplyInv
  <1>7. CASE serve_form(t)
    <2>1. PICK c \in Contents(held[t]) : reply' = [reply EXCEPT ![t] = Append(@, c)]
      BY <1>7 DEF serve_form
    <2>2. /\ c \in Seq(Entries) /\ reply[t] \in Seq(Seq(Entries)) /\ reply'[t] = Append(reply[t], c)
          /\ \A u \in Threads \ {t} : reply'[u] = reply[u]
      BY <2>1, ContentsType DEF ExactInv, OwnerInv, TypeOK
    <2>3. pc[t] = "serve" /\ UNCHANGED req /\ req[t] \in Requests
      BY <1>7 DEF serve_form, ExactInv, OwnerInv, TypeOK
    <2>4. ASSUME req[t].topic \in Topics \ raced
          PROVE  /\ Stored(t)' => Kept(t, req[t].topic)'
                 /\ req[t].rtopic = req[t].topic => \A n \in 1..Len(reply'[t]) : Clean(reply'[t][n])
      <3>1. Stored(t)' => Kept(t, req[t].topic)
        <4> SUFFICES ASSUME Stored(t)' PROVE Kept(t, req[t].topic)
          OBVIOUS
        <4>1. Speaks(t) \/ req[t].kind = "post"
          BY <2>3 DEF Stored, Acknowledged, Speaks
        <4>2. Topic(t) = req[t].topic
          BY <4>1 DEF Topic, Speaks
        <4>3. CASE Speaks(t)
          <5>1. Phase(t) = "after"
            BY <2>3, <4>3 DEF Phase, Speaks
          <5>2. QED
            BY <2>3, <2>4, <4>3, <5>1 DEF ExactInv, ReplyInv, Stored
        <4>4. CASE req[t].kind = "post"
          <5>1. reply[t] = <<>>
            BY <2>3, <4>4 DEF ExactInv, PathInv, Path
          <5>2. reply'[t][1] = c
            BY <2>2, <5>1
          <5>3. t \in Says(c)
            BY <2>3, <4>4, <5>2 DEF Stored, Acknowledged, Speaks
          <5>4. c # <<>>
            BY <5>3 DEF Says
          <5>5. dict[Topic(t)] # NULL /\ ~Stale(Topic(t)) /\ c = heap[dict[Topic(t)]]
            BY <2>3, <2>4, <4>2, <5>4, ServedText DEF ExactInv, OwnerInv
          <5>6. QED
            BY <4>2, <5>3, <5>5 DEF Kept, Stale
        <4>5. QED
          BY <4>1, <4>3, <4>4
      <3>2. ASSUME req[t].rtopic = req[t].topic, NEW n \in 1..Len(reply'[t]) PROVE Clean(reply'[t][n])
        <4>1. Topic(t) = req[t].topic
          BY <3>2 DEF Topic
        <4>2. Clean(c)
          <5>1. Clean(<<>>)
            BY DEF Clean, Says
          <5>2. QED
            BY <2>3, <2>4, <4>1, <5>1, ServedText DEF ExactInv
        <4>3. reply'[t][n] = c \/ (n \in 1..Len(reply[t]) /\ reply'[t][n] = reply[t][n])
          BY <2>2, <3>2
        <4>4. QED
          BY <2>3, <2>4, <3>2, <4>2, <4>3 DEF ExactInv, ReplyInv
      <3>3. QED
        BY <1>2, <2>3, <3>1, <3>2
    <2>5. ReplyInv'
      BY <1>1, <1>2, <1>3, <1>5, <2>2, <2>3, <2>4 DEF ReplyInv
    <2>6. QED
      BY <1>2, <1>3, <2>5
  <1>8. QED
    BY <1>6, <1>7

(* No slot of an unraced topic is stale while a handler is at it. *)
LEMMA BuiltNotStale ==
  ASSUME RaceInv, OwnerInv, NEW u \in Threads, Phase(u) = "built", Topic(u) \notin raced
  PROVE  ~Stale(Topic(u))
  <1> SUFFICES ASSUME NEW w \in Threads, pc[w] = "store", Topic(w) = Topic(u) PROVE FALSE
    BY DEF Stale
  <1>1. Phase(w) = "store" /\ w # u
    BY DEF Phase
  <1>2. QED
    BY <1>1, NullAssumption DEF RaceInv, OwnerInv, Keyed

(* dictionary_get notices every handler that is at the same conversation.  *)
LEMMA GetText ==
  ASSUME ExactInv, NEW t \in Threads, dictionary_get(t)
  PROVE  PathInv' /\ RaceInv' /\ TextInv' /\ ReplyInv'
  <1>1. /\ pc[t] = "get" /\ pc' = [pc EXCEPT ![t] = "V_get"]
        /\ held' = [held EXCEPT ![t] = Found(Topic(t))]
        /\ UNCHANGED <<req, round, fresh, reply, dict, heap, live>>
        /\ raced \subseteq raced'
        /\ (\E u \in Threads \ {t} : Window(u) /\ Topic(u) = Topic(t)) => Topic(t) \in raced' \cup {NULL}
    BY DEF dictionary_get, Goto
  <1>2. TypeOK /\ PathInv'
    BY PathStep DEF ExactInv, OwnerInv
  <1>3. /\ Phase(t) = "out" /\ Phase(t)' = "read"
        /\ \A u \in Threads : Topic(u)' = Topic(u)
        /\ \A u \in Threads \ {t} : Phase(u)' = Phase(u) /\ held'[u] = held[u]
        /\ held'[t] = Found(Topic(t))
        /\ \A k : Found(k)' = Found(k)
        /\ \A u \in Threads : Phase(u) # "out" => Window(u)
        /\ \A u \in Threads : (pc'[u] = "store" <=> pc[u] = "store") /\ (pc'[u] = "start" <=> pc[u] = "start")
    BY <1>1, <1>2 DEF TypeOK, Phase, Topic, Window, Found
  <1>4. \A k : Stale(k)' <=> Stale(k)
    BY <1>3 DEF Stale
  <1>5. RaceInv'
    BY <1>1, <1>3 DEF RaceInv, ExactInv
  <1>6. TextInv'
    BY <1>1, <1>3, <1>4 DEF TextInv, ExactInv, Speaks
  <1>7. \A e, k : Kept(e, k)' <=> Kept(e, k)
    BY <1>1, <1>3, <1>4 DEF Kept
  <1>8. \A u \in Threads : Stored(u)' => Stored(u)
    BY <1>1, <1>3 DEF Stored, Acknowledged, Speaks
  <1>9. ReplyInv'
    BY <1>1, <1>3, <1>7, <1>8 DEF ReplyInv, ExactInv
  <1>10. QED
    BY <1>2, <1>5, <1>6, <1>9

(* The new string is written where no string is, and extends the one that  *)
(* the dictionary holds.                                                   *)
LEMMA BuildText ==
  ASSUME ExactInv, NEW t \in Threads, Build(t)
  PROVE  PathInv' /\ RaceInv' /\ TextInv' /\ ReplyInv'
  <1>1. PICK p \in Ptrs \ live, old \in Contents(held[t]) :
          /\ heap' = [heap EXCEPT ![p] = Appended(t, old)]
          /\ fresh' = [fresh EXCEPT ![t] = p]
    BY DEF Build
  <1>2. /\ pc[t] = "branch" /\ pc' = [pc EXCEPT ![t] = "P_set"] /\ Builds(t)
        /\ UNCHANGED <<req, round, held, reply, dict, raced>>
    BY DEF Build, Goto
  <1>3. TypeOK /\ PathInv' /\ Ownership
    BY PathStep DEF ExactInv, OwnerInv
  <1>4. /\ Phase(t) = "read" /\ Phase(t)' = "built" /\ fresh'[t] = p
        /\ \A u \in Threads : Topic(u)' = Topic(u)
        /\ \A u \in Threads \ {t} : Phase(u)' = Phase(u) /\ fresh'[u] = fresh[u]
        /\ \A u \in Threads : (pc'[u] = "store" <=> pc[u] = "store") /\ (pc'[u] = "start" <=> pc[u] = "start")
        /\ \A k : Found(k)' = Found(k)
    BY <1>1, <1>2, <1>3 DEF TypeOK, Phase, Topic, Found
  <1>5. \A k : Stale(k)' <=> Stale(k)
    BY <1>4 DEF Stale
  <1>6. \A u \in Threads \ {t} : Phase(u) \in {"built", "store"} => heap'[fresh'[u]] = heap[fresh[u]]
    <2> SUFFICES ASSUME NEW u \in Threads \ {t}, Phase(u) \in {"built", "store"}
                 PROVE  heap'[fresh'[u]] = heap[fresh[u]]
      OBVIOUS
    <2>1. fresh[u] # NULL
      BY <1>3 DEF Phase, Ownership, PrivateUntilStored
    <2>2. fresh[u] \in live /\ fresh[u] \in Ptrs
      BY <1>3, <2>1 DEF Ownership, PrivateUntilStored, TypeOK
    <2>3. QED
      BY <1>1, <1>3, <1>4, <2>2 DEF TypeOK
  <1>7. \A k \in Topics : dict[k] # NULL /\ ~Stale(k) => heap'[dict[k]] = heap[dict[k]]
    <2> SUFFICES ASSUME NEW k \in Topics, dict[k] # NULL, ~Stale(k) PROVE heap'[dict[k]] = heap[dict[k]]
      OBVIOUS
    <2>1. dict[k] \in live /\ dict[k] \in Ptrs
      BY <1>3 DEF Ownership, DictionaryOwnsValues, TypeOK
    <2>2. QED
      BY <1>1, <1>3, <2>1 DEF TypeOK
  <1>8. /\ heap'[fresh'[t]] = Appended(t, old) /\ old \in Seq(Entries)
        /\ Speaks(t) => t \in Says(Appended(t, old))
        /\ Clean(old) => Clean(Appended(t, old))
        /\ held[t] # NULL => Extends(Appended(t, old), old)
    <2>1. held[t] \in Ptrs \cup {NULL}
      BY <1>3 DEF TypeOK
    <2>2. old \in Seq(Entries)
      BY <1>3, <2>1, ContentsType
    <2>3. heap'[fresh'[t]] = Appended(t, old)
      BY <1>1, <1>3, <1>4 DEF TypeOK
    <2>4. QED
      BY <1>2, <1>3, <2>2, <2>3, AppendedText
  <1>9. ASSUME Topic(t) \notin raced
        PROVE  /\ held[t] = Found(Topic(t)) /\ Clean(heap'[fresh'[t]])
               /\ held[t] # NULL => Extends(heap'[fresh'[t]], heap'[Found(Topic(t))])
    <2>1. held[t] = Found(Topic(t))
      BY <1>4, <1>9 DEF ExactInv, RaceInv
    <2>2. CASE held[t] = NULL
      <3>1. Clean(old)
        BY <1>1, <2>2 DEF Contents, Clean, Says
      <3>2. QED
        BY <1>8, <2>1, <2>2, <3>1
    <2>3. CASE held[t] # NULL
      <3>1. /\ Topic(t) \in Topics /\ ~Stale(Topic(t)) /\ old = heap[dict[Topic(t)]]
            /\ held[t] = dict[Topic(t)]
        BY <1>1, <1>4, <1>9, <2>3, HeldLive DEF ExactInv
      <3>2. Clean(old) /\ heap'[Found(Topic(t))] = old
        BY <1>7, <1>9, <2>1, <2>3, <3>1 DEF ExactInv, TextInv
      <3>3. QED
        BY <1>8, <2>1, <2>3, <3>2
    <2>4. QED
      BY <2>2, <2>3
  <1>10. RaceInv'
    BY <1>2, <1>4 DEF RaceInv, ExactInv
  <1>11. TextInv'
    <2>1. ASSUME NEW u \in Threads, Phase(u)' = "built", Topic(u)' \notin raced', Found(Topic(u))' # NULL
          PROVE  Extends(heap'[fresh'[u]], heap'[Found(Topic(u))'])
      <3>1. CASE u = t
        BY <1>2, <1>4, <1>9, <2>1, <3>1
      <3>2. CASE u # t
        <4>1. Phase(u) = "built" /\ Topic(u) \notin raced /\ Topic(u)' = Topic(u) /\ Found(Topic(u)) # NULL
          BY <1>2, <1>4, <2>1, <3>2 DEF Found
        <4>2. ~Stale(Topic(u))
          BY <4>1, BuiltNotStale DEF ExactInv
        <4>3. Topic(u) \in Topics /\ Found(Topic(u)) = dict[Topic(u)] /\ Found(Topic(u))' = dict[Topic(u)]
          BY <1>2, <1>3, <4>1, TopicType DEF Phase, Found
        <4>4. QED
          BY <1>2, <1>6, <1>7, <3>2, <4>1, <4>2, <4>3 DEF ExactInv, TextInv
      <3>3. QED
        BY <3>1, <3>2
    <2>2. \A u \in Threads : Phase(u)' \in {"built", "store"} /\ Topic(u)' \notin raced' => Clean(heap'[fresh'[u]])
      BY <1>2, <1>4, <1>6, <1>9 DEF ExactInv, TextInv
    <2>3. \A u \in Threads : Phase(u)' \in {"built", "store"} /\ Speaks(u)' => u \in Says(heap'[fresh'[u]])
      BY <1>2, <1>4, <1>6, <1>8 DEF ExactInv, TextInv, Speaks
    <2>4. \A k \in Topics \ raced' : dict'[k] # NULL /\ ~Stale(k)' => Clean(heap'[dict'[k]])
      BY <1>2, <1>5, <1>7 DEF ExactInv, TextInv
    <2>5. QED
      BY <2>1, <2>2, <2>3, <2>4 DEF TextInv, Clean, Says, Extends
  <1>12. \A e : \A k \in Topics : Kept(e, k) => Kept(e, k)'
    <2> SUFFICES ASSUME NEW e, NEW k \in Topics, Kept(e, k) PROVE Kept(e, k)'
      OBVIOUS
    <2>1. ~Stale(k)' => dict'[k] # NULL /\ e \in Says(heap'[dict'[k]])
      BY <1>2, <1>5, <1>7 DEF Kept
    <2>2. ASSUME NEW u \in Threads, pc'[u] = "store", Topic(u)' = k PROVE e \in Says(heap'[fresh'[u]])
      <3>1. pc[u] = "store" /\ u # t /\ Topic(u) = k /\ Phase(u) = "store"
        BY <1>2, <1>4, <2>2 DEF Phase
      <3>2. QED
        BY <1>6, <3>1 DEF Kept
    <2>3. QED
      BY <2>1, <2>2 DEF Kept, Says
  <1>13. \A u \in Threads : Stored(u)' => Stored(u)
    BY <1>2, <1>4 DEF Stored, Acknowledged, Speaks
  <1>14. ReplyInv'
    BY <1>2, <1>4, <1>12, <1>13 DEF ReplyInv, ExactInv
  <1>15. QED
    BY <1>3, <1>10, <1>11, <1>14

(* While the old string is freed, its entries are in the new one. *)
LEMMA FreeText ==
  ASSUME ExactInv, NEW t \in Threads, dictionary_set_free(t)
  PROVE  PathInv' /\ RaceInv' /\ TextInv' /\ ReplyInv'
  <1>1. /\ pc[t] = "free" /\ pc' = [pc EXCEPT ![t] = "store"]
        /\ UNCHANGED <<req, round, held, fresh, reply, dict, heap, raced>>
    BY DEF dictionary_set_free, Goto
  <1>2. TypeOK /\ PathInv' /\ Ownership /\ OwnerInv
    BY PathStep DEF ExactInv, OwnerInv
  <1>3. /\ Phase(t) = "built" /\ Phase(t)' = "store"
        /\ \A u \in Threads : Topic(u)' = Topic(u)
        /\ \A u \in Threads \ {t} : Phase(u)' = Phase(u) /\ pc'[u] = pc[u]
        /\ pc'[t] = "store"
        /\ \A k : Found(k)' = Found(k)
    BY <1>1, <1>2 DEF TypeOK, Phase, Topic, Found
  <1>4. Topic(t) \in Topics /\ \A k \in Topics : ~Stale(k)
    BY <1>1, <1>2, TopicType, OneStale DEF InSection, dictionary_set_free, PassesNull
  <1>5. \A k \in Topics : Stale(k)' <=> k = Topic(t)
    BY <1>3, <1>4 DEF Stale
  <1>6. RaceInv'
    BY <1>1, <1>3 DEF RaceInv, ExactInv
  <1>7. TextInv'
    BY <1>1, <1>3, <1>4, <1>5 DEF TextInv, ExactInv, Speaks
  <1>8. ASSUME NEW e, NEW k \in Topics, k \notin raced, Kept(e, k) PROVE Kept(e, k)'
    <2>1. dict[k] # NULL /\ e \in Says(heap[dict[k]])
      BY <1>4, <1>8 DEF Kept
    <2>2. ASSUME Topic(t) = k PROVE e \in Says(heap[fresh[t]])
      <3>1. Extends(heap[fresh[t]], heap[dict[k]])
        BY <1>3, <1>8, <2>1, <2>2, NullAssumption DEF ExactInv, TextInv, Found
      <3>2. fresh[t] \in Ptrs /\ dict[k] \in Ptrs
        BY <1>1, <1>2, <2>1 DEF Ownership, PrivateUntilStored, TypeOK
      <3>3. heap[fresh[t]] \in Seq(Entries) /\ heap[dict[k]] \in Seq(Entries)
        BY <1>2, <3>2 DEF TypeOK
      <3>4. QED
        BY <2>1, <3>1, <3>3, ExtendsSays
    <2>3. \A u \in Threads : pc'[u] = "store" /\ Topic(u)' = k => u = t
      BY <1>3, <1>4 DEF Stale
    <2>4. QED
      BY <1>1, <1>3, <2>1, <2>2, <2>3 DEF Kept
  <1>9. ReplyInv'
    <2>2. \A u \in Threads : (Stored(u)' => Stored(u)) /\ (pc'[u] = "start" => pc[u] = "start")
                               /\ (pc[u] = "start" => pc'[u] = "start")
      BY <1>1, <1>3 DEF Stored, Acknowledged, Speaks
    <2>3. QED
      BY <1>1, <1>8, <2>2 DEF ReplyInv, ExactInv
  <1>10. QED
    BY <1>2, <1>6, <1>7, <1>9

(* The string that is stored becomes the conversation. *)
LEMMA StoreText ==
  ASSUME ExactInv, NEW t \in Threads, dictionary_set_store(t)
  PROVE  PathInv' /\ RaceInv' /\ TextInv' /\ ReplyInv'
  <1>1. /\ pc[t] = "store" /\ pc' = [pc EXCEPT ![t] = "V_set"]
        /\ dict' = [dict EXCEPT ![Topic(t)] = fresh[t]]
        /\ held' = [held EXCEPT ![t] = IF req[t].kind = "say" THEN NULL ELSE fresh[t]]
        /\ fresh' = [fresh EXCEPT ![t] = NULL]
        /\ UNCHANGED <<req, round, reply, heap, raced>>
    BY DEF dictionary_set_store, Goto
  <1>2. TypeOK /\ PathInv' /\ Ownership /\ OwnerInv
    BY PathStep DEF ExactInv, OwnerInv
  <1>3. /\ Phase(t) = "store" /\ Phase(t)' = "after"
        /\ \A u \in Threads : Topic(u)' = Topic(u)
        /\ \A u \in Threads \ {t} : Phase(u)' = Phase(u) /\ pc'[u] = pc[u]
        /\ pc'[t] = "V_set"
    BY <1>1, <1>2 DEF TypeOK, Phase, Topic
  <1>4. Topic(t) \in Topics /\ \A k \in Topics : Stale(k) <=> k = Topic(t)
    BY <1>1, <1>2, OneStale DEF InSection, OwnerInv, Keyed
  <1>5. \A u \in Threads \ {t} : pc[u] # "store"
    BY <1>1, <1>2 DEF OwnerInv, LockInv, InSection
  <1>6. \A k \in Topics : ~Stale(k)'
    BY <1>3, <1>5 DEF Stale
  <1>7. /\ \A k \in Topics : dict'[k] = IF k = Topic(t) THEN fresh[t] ELSE dict[k]
        /\ \A u \in Threads \ {t} : held'[u] = held[u] /\ fresh'[u] = fresh[u]
        /\ held'[t] = NULL \/ held'[t] = fresh[t]
        /\ fresh[t] # NULL
    BY <1>1, <1>2, <1>4 DEF TypeOK, Ownership, PrivateUntilStored
  <1>8. \A u \in Threads : Phase(u) # "out" => Topic(u) \in Topics \cup {NULL}
    BY <1>2, TopicType DEF Phase
  <1>9. \A u \in Threads \ {t} : Phase(u) # "out" /\ Topic(u) \notin raced => Found(Topic(u))' = Found(Topic(u))
    <2> SUFFICES ASSUME NEW u \in Threads \ {t}, Phase(u) # "out", Topic(u) \notin raced
                 PROVE  Found(Topic(u))' = Found(Topic(u))
      OBVIOUS
    <2>1. CASE Topic(u) = NULL
      BY <1>3, <2>1 DEF Found
    <2>2. CASE Topic(u) # NULL
      <3>1. Topic(u) # Topic(t)
        BY <1>3, <2>2 DEF ExactInv, RaceInv
      <3>2. QED
        BY <1>3, <1>7, <1>8, <2>2, <3>1 DEF Found
    <2>3. QED
      BY <2>1, <2>2
  <1>10. RaceInv'
    <2>1. \A u, v \in Threads :
            Phase(u)' # "out" /\ Phase(v)' # "out" /\ Topic(u)' = Topic(v)' /\ u # v =>
              Topic(u)' \in raced' \cup {NULL}
      BY <1>1, <1>3 DEF RaceInv, ExactInv
    <2>2. \A u \in Threads : Phase(u)' # "out" /\ Topic(u)' \notin raced' =>
            held'[u] = Found(Topic(u))' \/ (Phase(u)' = "after" /\ held'[u] = NULL)
      <3>1. Found(Topic(t))' = fresh[t]
        BY <1>3, <1>4, <1>7, NullAssumption DEF Found
      <3>2. QED
        BY <1>1, <1>3, <1>4, <1>7, <1>9, <3>1 DEF RaceInv, ExactInv
    <2>3. QED
      BY <2>1, <2>2 DEF RaceInv
  <1>11. TextInv'
    <2>1. \A u \in Threads : Phase(u)' = "built" /\ Topic(u)' \notin raced' /\ Found(Topic(u))' # NULL =>
            Extends(heap'[fresh'[u]], heap'[Found(Topic(u))'])
      BY <1>1, <1>3, <1>7, <1>9 DEF ExactInv, TextInv
    <2>2. \A u \in Threads : Phase(u)' \in {"built", "store"} /\ Topic(u)' \notin raced' => Clean(heap'[fresh'[u]])
      BY <1>1, <1>3, <1>7 DEF ExactInv, TextInv
    <2>3. \A u \in Threads : Phase(u)' \in {"built", "store"} /\ Speaks(u)' => u \in Says(heap'[fresh'[u]])
      BY <1>1, <1>3, <1>7 DEF ExactInv, TextInv, Speaks
    <2>4. \A k \in Topics \ raced' : dict'[k] # NULL => Clean(heap'[dict'[k]])
      BY <1>1, <1>3, <1>4, <1>7 DEF ExactInv, TextInv
    <2>5. QED
      BY <2>1, <2>2, <2>3, <2>4 DEF TextInv, Clean, Says, Extends
  <1>12. ASSUME NEW e, NEW k \in Topics, Kept(e, k) PROVE Kept(e, k)'
    <2>1. dict'[k] # NULL /\ e \in Says(heap'[dict'[k]])
      BY <1>1, <1>4, <1>7, <1>12 DEF Kept
    <2>2. QED
      BY <1>3, <1>5, <2>1 DEF Kept, Says
  <1>13. ReplyInv'
    <2>2. \A u \in Threads \ {t} : (Stored(u)' => Stored(u)) /\ (pc'[u] = "start" <=> pc[u] = "start")
      BY <1>1, <1>3 DEF Stored, Acknowledged, Speaks
    <2>3. \A u \in Threads \ {t} : pc'[u] # "start" /\ req'[u].topic \in Topics \ raced' /\ Stored(u)' => Kept(u, req[u].topic)'
      BY <1>1, <1>12, <2>2 DEF ReplyInv, ExactInv
    <2>4. req[t].topic \in Topics \ raced /\ Stored(t)' => Kept(t, req[t].topic)'
      <3> SUFFICES ASSUME req[t].topic \in Topics \ raced, Stored(t)' PROVE Kept(t, req[t].topic)'
        OBVIOUS
      <3>1. reply[t] = <<>> \/ req[t].kind \notin {"say", "post"}
        BY <1>1 DEF ExactInv, PathInv, Path
      <3>2. Speaks(t)
        BY <1>1, <3>1 DEF Stored, Acknowledged, Speaks
      <3>3. Topic(t) = req[t].topic /\ t \in Says(heap[fresh[t]])
        BY <1>3, <3>2 DEF Topic, ExactInv, TextInv, Speaks
      <3>4. Kept(t, Topic(t))
        BY <1>4, <1>5, <3>3 DEF Kept
      <3>5. QED
        BY <1>1, <1>4, <1>12, <3>3, <3>4
    <2>5. QED
      BY <1>1, <1>3, <2>2, <2>3, <2>4 DEF ReplyInv, ExactInv
  <1>14. QED
    BY <1>2, <1>10, <1>11, <1>13

(* A complete request never passes NULL on, and reads a freed string only  *)
(* when it has raced with the one that freed it.                           *)
LEMMA CrashRaces ==
  ASSUME ExactInv, NEW t \in Threads, Crash(t) \/ NullCrash(t), Complete(req[t])
  PROVE  Topic(t) \in raced
  <1>1. pc[t] # "start" /\ req[t] \in Requests
    <2>1. pc[t] # "start"
      BY DEF Crash, NullCrash, PassesNull
    <2>2. QED
      BY <2>1 DEF ExactInv, OwnerInv, TypeOK
  <1>2. /\ pc[t] \in {"connect", "await"} => req[t].kind = "import"
        /\ pc[t] \in {"get", "free"} => Topic(t) # NULL
    BY <1>1 DEF ExactInv, PathInv, Path, Complete, Topic, Posts, Requests, Kinds
  <1>3. ~NullCrash(t)
    BY <1>1, <1>2 DEF NullCrash, PassesNull, Complete, Posts
  <1>4. pc[t] \in {"branch", "serve"} /\ held[t] # NULL /\ held[t] \notin live
    BY <1>2, <1>3 DEF Crash, MayCrash, Complete
  <1>5. Phase(t) \in {"read", "after"}
    BY <1>4 DEF ExactInv, PathInv, Path, Phase
  <1>6. QED
    BY <1>4, <1>5, HeldLive DEF ExactInv

(* Every step keeps the invariant. *)
LEMMA ExactStep == ExactInv /\ [Next]_vars => ExactInv'
  <1> SUFFICES ASSUME ExactInv, [Next]_vars PROVE ExactInv'
    OBVIOUS
  <1>1. OwnerInv'
    BY TypeStep, LockStep, OwnershipStep, KeyedStep DEF ExactInv, OwnerInv
  <1>2. CASE UNCHANGED <<pc, req, round, held, fresh, reply, dict, heap, live, raced>>
    <2>1. \A u \in Threads : Moves(u) /\ Phase(u)' = Phase(u)
      BY <1>2 DEF Moves, Phase, Topic
    <2>2. RaceInv' /\ TextInv' /\ \A e, k : Kept(e, k)' <=> Kept(e, k)
      BY <1>2, <2>1, MovesKeep DEF ExactInv
    <2>3. PathInv'
      BY <1>2 DEF ExactInv, PathInv, Path
    <2>4. \A u \in Threads : Stored(u)' <=> Stored(u)
      BY <1>2, <2>1 DEF Stored, Acknowledged, Speaks
    <2>5. ReplyInv'
      BY <1>2, <2>2, <2>4 DEF ExactInv, ReplyInv
    <2>6. QED
      BY <1>1, <2>2, <2>3, <2>5 DEF ExactInv
  <1>3. CASE UNCHANGED vars
    BY <1>2, <1>3 DEF vars
  <1>4. ASSUME NEW t \in Threads, Crash(t) \/ NullCrash(t) PROVE ExactInv'
    BY <1>2, <1>4 DEF Crash, NullCrash, Die
  <1>5. ASSUME NEW t \in Threads, Accept(t) \/ Step(t) PROVE ExactInv'
    <2>1. CASE NullCrash(t)
      BY <1>4, <2>1
    <2>2. CASE ~NullCrash(t)
      <3>1. PathInv' /\ RaceInv' /\ TextInv' /\ ReplyInv'
        BY <1>5, <2>2, MovingKeeps, GetText, BuildText, FreeText, StoreText DEF Step
      <3>2. QED
        BY <1>1, <3>1 DEF ExactInv
    <2>3. QED
      BY <2>1, <2>2
  <1>6. QED
    BY <1>3, <1>4, <1>5 DEF Next

(* The inductive invariant: on a topic without overlap every handler works *)
(* on the string that the dictionary holds, and every entry that was       *)
(* acknowledged is in it or in the string about to replace it.             *)
THEOREM TextCorrect == Spec => []ExactInv
  <1>1. Init => OwnerInv
    BY TypeInit DEF Init, OwnerInv, LockInv, InSection, Ownership, PrivateUntilStored,
                    DictionaryOwnsValues, NoLeak, Keyed
  <1>2. Init => ExactInv
    <2> SUFFICES ASSUME Init PROVE ExactInv
      OBVIOUS
    <2>1. \A t \in Threads : /\ pc[t] = "start" /\ Phase(t) = "out" /\ reply[t] = <<>>
                             /\ held[t] = NULL /\ round[t] = 1
      BY DEF Init, Phase
    <2>2. \A k \in Topics : dict[k] = NULL
      BY DEF Init
    <2>3. PathInv /\ RaceInv /\ TextInv /\ ReplyInv
      BY <2>1, <2>2 DEF PathInv, Path, RaceInv, TextInv, ReplyInv
    <2>4. QED
      BY <1>1, <2>3 DEF ExactInv
  <1>3. QED
    BY <1>2, ExactStep, PTL DEF Spec

(* Whatever requests arrive, complete or not, on however many connections: *)
(* the process dies in the thread of a complete one only when another on   *)
(* its topic overlapped it.  serve_form and append_strings are the only    *)
(* readers of a conversation, and what they read is live unless another    *)
(* handler replaced it in between.                                         *)
THEOREM CrashCorrect == Spec => []CompleteDiesOnlyRacing
  <1>1. Init => CompleteDiesOnlyRacing
    BY DEF Init, CompleteDiesOnlyRacing
  <1>2. ExactInv /\ CompleteDiesOnlyRacing /\ [Next]_vars => CompleteDiesOnlyRacing'
    <2> SUFFICES ASSUME ExactInv, CompleteDiesOnlyRacing, [Next]_vars PROVE CompleteDiesOnlyRacing'
      OBVIOUS
    <2>1. CASE UNCHANGED vars
      BY <2>1 DEF CompleteDiesOnlyRacing, vars, Topic
    <2>2. ASSUME NEW t \in Threads, Crash(t) \/ NullCrash(t) PROVE CompleteDiesOnlyRacing'
      <3>1. crashed' = t /\ UNCHANGED <<req, round, raced>>
        BY <2>2 DEF Crash, NullCrash, Die
      <3>2. QED
        BY <2>2, <3>1, CrashRaces DEF CompleteDiesOnlyRacing, Topic
    <2>3. CASE crashed = NULL /\ UNCHANGED crashed
      BY <2>3 DEF CompleteDiesOnlyRacing
    <2>4. QED
      BY <2>1, <2>2, <2>3 DEF Next, Step, Accept, ReadLine, ReadHeaders, P, dictionary_get, V_get,
           Build, ReadAgain, JustServe, dictionary_set_free, dictionary_set_store, V_set,
           serve_form, Connect, Await, Close
  <1>3. QED
    BY <1>1, <1>2, TextCorrect, PTL DEF Spec

(* On a topic where no two requests ever overlapped, no acknowledged entry *)
(* is lost, dictionary_set only replaces a conversation by an extension of *)
(* it, and no reply shows bytes of a freed string.                         *)
THEOREM ExactCorrect == Spec => []ExactWithoutOverlap
  <1>1. ExactInv => ExactWithoutOverlap
    <2> SUFFICES ASSUME ExactInv, NEW k \in Topics \ raced, NEW t \in Threads
                 PROVE  /\ (Quiet /\ pc[t] # "start" /\ req[t].topic = k /\ Acknowledged(t)) =>
                             dict[k] # NULL /\ t \in Says(heap[dict[k]])
                        /\ (pc[t] = "free" /\ Topic(t) = k /\ dict[k] # NULL) =>
                             Extends(heap[fresh[t]], heap[dict[k]])
                        /\ pc[t] # "start" /\ req[t].topic = k /\ req[t].rtopic = k =>
                             \A n \in 1..Len(reply[t]) : Garbled \notin Says(reply[t][n])
      BY DEF ExactWithoutOverlap, Extends
    <2>1. (Quiet /\ pc[t] # "start" /\ req[t].topic = k /\ Acknowledged(t)) =>
             dict[k] # NULL /\ t \in Says(heap[dict[k]])
      <3> HAVE Quiet /\ pc[t] # "start" /\ req[t].topic = k /\ Acknowledged(t)
      <3>1. Kept(t, k) /\ ~Stale(k)
        BY DEF ExactInv, ReplyInv, Stored, Quiet, Stale
      <3>2. QED
        BY <3>1 DEF Kept
    <2>2. (pc[t] = "free" /\ Topic(t) = k /\ dict[k] # NULL) => Extends(heap[fresh[t]], heap[dict[k]])
      BY NullAssumption DEF ExactInv, TextInv, Phase, Found
    <2>3. pc[t] # "start" /\ req[t].topic = k /\ req[t].rtopic = k =>
             \A n \in 1..Len(reply[t]) : Garbled \notin Says(reply[t][n])
      BY DEF ExactInv, ReplyInv, Clean
    <2>4. QED
      BY <2>1, <2>2, <2>3
  <1>2. QED
    BY <1>1, TextCorrect, PTL
=============================================================================
