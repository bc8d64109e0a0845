------------------------------ MODULE TinyChat ------------------------------
(***************************************************************************)
(* The chat server of Serverlab/tinychat.c: one detached thread per        *)
(* connection runs doit, the conversations live in the one dictionary      *)
(* global_dic, and sem_lock protects every single dictionary call - but    *)
(* not the read-append-replace sequences that are made of two of them.     *)
(*                                                                         *)
(* A thread is its connection's request.  A conversation is a C string;    *)
(* here it is the sequence of the entries in it, an entry being named by   *)
(* the thread that said it.  Strings are heap objects: Ptrs are the        *)
(* addresses, `live' the allocated ones, `heap' what the bytes hold.       *)
(***************************************************************************)
EXTENDS Integers, Sequences, FiniteSets

CONSTANTS
  Threads,   \* the connections of the workload, one thread each
  Topics,    \* keys of global_dic
  Ptrs,      \* addresses malloc can return for conversation strings
  NULL,      \* the null pointer
  Garbled,   \* an entry no client ever sent: bytes of a freed string
  Clients,   \* the requests that arrive from the network
  Unprintable  \* topics import cannot sprintf: with a %, or too long

(* What a client can do with a connection, as far as doit tells it apart.  *)
Kinds == {"join", "post", "post_empty", "conversation", "say", "import",
          "welcome",       \* any other GET
          "garbage",       \* a line parse_request_line refuses
          "unsupported",   \* another version or method
          "silent",        \* closes without sending a line
          "partial"}       \* closes in the middle of the headers

Posts == {"join", "post", "post_empty"}

(* The host an import names, by what it answers.                           *)
Hosts == {"self",         \* this server
          "unresolved",   \* no such name: getaddrinfo leaves its list unset
          "closed",       \* no connection, or one that is closed again
          "quiet",        \* nothing
          "refused",      \* a line parse_request_line refuses
          "status",       \* a status line
          "request",      \* a line that reads like a request, and headers
          "endless"}      \* the same, without the blank line

(* What the client left out.  A topic that is not there is NULL.           *)
Lacks == {"nothing",
          "type",         \* the Content-Type of a post
          "message",      \* the message of a post
          "words"}        \* the name, user or content of an entry

Requests == [kind   : Kinds,
             topic  : Topics \cup {NULL},
             lacks  : Lacks,
             host   : Hosts,                 \* of an import
             rtopic : Topics \cup {NULL},    \* topic in a request-like reply
             client : Threads \cup {NULL}]   \* the importer, NULL: the network

ASSUME ClientsAssumption ==
  Clients \subseteq Requests /\ \A r \in Clients : r.client = NULL
ASSUME NullAssumption == NULL \notin Ptrs /\ NULL \notin Threads /\ NULL \notin Topics
ASSUME UnprintableAssumption == Unprintable \subseteq Topics
ASSUME GarbledAssumption == Garbled \notin Threads

VARIABLES
  pc,        \* pc[t]    : where connection t is in doit
  req,       \* req[t]   : the request that arrived on connection t
  round,     \* round[t] : which dictionary_get of the handler t is at
  held,      \* held[t]  : last_mes, tem_topic, all_conv ...
  fresh,     \* fresh[t] : a string t has built and not yet handed over
  reply,     \* reply[t] : the conversations t's serve_form calls sent
  dict,      \* global_dic
  heap,      \* the bytes of the conversation strings
  live,      \* the allocated strings
  sem_lock,  \* the semaphore's value
  crashed,   \* the thread in which the process died, NULL: it lives
  raced      \* history: topics on which two requests overlapped

vars == <<pc, req, round, held, fresh, reply, dict, heap, live, sem_lock,
          crashed, raced>>

Entries == Threads \cup {Garbled}

PCs == {"start", "line", "headers", "P_get", "get", "V_get", "branch",
        "P_set", "free", "store", "V_set", "serve", "connect", "await",
        "close", "done"}

TypeOK ==
  /\ pc \in [Threads -> PCs]
  /\ req \in [Threads -> Requests \cup {NULL}]
  /\ \A t \in Threads : pc[t] # "start" => req[t] \in Requests
  /\ round \in [Threads -> 1..3]
  /\ held \in [Threads -> Ptrs \cup {NULL}]
  /\ fresh \in [Threads -> Ptrs \cup {NULL}]
  /\ reply \in [Threads -> Seq(Seq(Entries))]
  /\ dict \in [Topics -> Ptrs \cup {NULL}]
  /\ heap \in [Ptrs -> Seq(Entries)]
  /\ live \in SUBSET Ptrs
  /\ sem_lock \in {0, 1}
  /\ crashed \in Threads \cup {NULL}
  /\ raced \in SUBSET Topics

Init ==
  /\ pc = [t \in Threads |-> "start"]
  /\ req = [t \in Threads |-> NULL]
  /\ round = [t \in Threads |-> 1]
  /\ held = [t \in Threads |-> NULL]
  /\ fresh = [t \in Threads |-> NULL]
  /\ reply = [t \in Threads |-> <<>>]
  /\ dict = [k \in Topics |-> NULL]
  /\ heap = [p \in Ptrs |-> <<>>]
  /\ live = {}
  /\ sem_lock = 1
  /\ crashed = NULL
  /\ raced = {}

-----------------------------------------------------------------------------
(* Helpers *)

Goto(t, label) == pc' = [pc EXCEPT ![t] = label]

(* The topic of the section t is in: the query's, or for the second part   *)
(* of an import the one in the reply.                                      *)
Topic(t) ==
  IF req[t].kind = "import" /\ round[t] = 2 THEN req[t].rtopic ELSE req[t].topic

(* The strings a read through p can see.  A freed string may still hold    *)
(* its bytes, hold somebody else's, or be clobbered.                       *)
Contents(p) ==
  IF p = NULL THEN {<<>>}
  ELSE IF p \in live THEN {heap[p]} ELSE {heap[p], <<Garbled>>}

(* Long strings are mapped one by one, so a freed one may be gone.         *)
MayCrash(p) == p # NULL /\ p \notin live

(* What dictionary_get finds.  A NULL key is compared with no other when   *)
(* the dictionary is empty.                                                *)
Found(k) == IF k = NULL THEN NULL ELSE dict[k]

(* t is about to pass NULL to strcasecmp, strcmp, strlen or strdup: a post *)
(* without a type in read_postquery, a lookup or a dictionary_set without  *)
(* a topic, a post without a message.                                      *)
PassesNull(t) ==
  \/ pc[t] = "headers" /\ req[t].kind \in Posts /\ req[t].lacks = "type"
  \/ pc[t] = "get" /\ Topic(t) = NULL /\ \E k \in Topics : dict[k] # NULL
  \/ pc[t] = "branch" /\ req[t].kind = "post" /\ req[t].lacks = "message"
  \/ pc[t] = "free" /\ Topic(t) = NULL

(* t holds a conversation pointer, or is about to replace the string that  *)
(* it read: from its dictionary_get to its last use.                       *)
Window(t) == pc[t] \in {"V_get", "branch", "P_set", "free", "store",
                        "V_set", "serve"}

(* A client of the network ends its headers with the blank line; the       *)
(* importer, which sends just the request line, never does.                *)
SendsBlankLine(t) == req[t].kind # "partial" /\ req[t].client = NULL

SelfImport(r) == r.kind = "import" /\ r.host = "self"

(* A bound of the model and not of the server: the last connections are    *)
(* kept for the imports under way, so that Connect always finds one.       *)
SlotBound(r) ==
  LET unconnected == {u \in Threads : /\ pc[u] \notin {"start", "await", "close", "done"}
                                      /\ SelfImport(req[u])}
  IN  Cardinality({u \in Threads : pc[u] = "start"})
        > Cardinality(unconnected) + (IF SelfImport(r) THEN 1 ELSE 0)

-----------------------------------------------------------------------------
(* main: accept a connection and start its thread *)
Accept(t) ==
  /\ pc[t] = "start"
  /\ \E r \in Clients : SlotBound(r) /\ req' = [req EXCEPT ![t] = r]
  /\ Goto(t, "line")
  /\ UNCHANGED <<round, held, fresh, reply, dict, heap, live, sem_lock, crashed, raced>>

(* doit: the request line; a refused one is answered by clienterror, or    *)
(* kills the process: see Crash.                                           *)
ReadLine(t) ==
  /\ pc[t] = "line"
  /\ Goto(t, IF req[t].kind \in {"silent", "garbage", "unsupported"}
             THEN "close" ELSE "headers")
  /\ UNCHANGED <<req, round, held, fresh, reply, dict, heap, live, sem_lock, crashed, raced>>

(* read_requesthdrs and read_postquery.  Without a blank line the loop     *)
(* never leaves.                                                           *)
ReadHeaders(t) ==
  /\ pc[t] = "headers" /\ SendsBlankLine(t) /\ ~PassesNull(t)
  /\ Goto(t, IF req[t].kind = "welcome" THEN "serve" ELSE "P_get")
  /\ UNCHANGED <<req, round, held, fresh, reply, dict, heap, live, sem_lock, crashed, raced>>

(* mutant: P does not wait *)
P_nowait(t) ==
  /\ pc[t] \in {"P_get", "P_set"}
  /\ sem_lock' = sem_lock - 1
  /\ Goto(t, IF pc[t] = "P_get" THEN "get" ELSE "free")
  /\ UNCHANGED <<req, round, held, fresh, reply, dict, heap, live, crashed, raced>>

P(t) ==
  /\ pc[t] \in {"P_get", "P_set"} /\ sem_lock = 1
  /\ sem_lock' = 0
  /\ Goto(t, IF pc[t] = "P_get" THEN "get" ELSE "free")
  /\ UNCHANGED <<req, round, held, fresh, reply, dict, heap, live, crashed, raced>>

dictionary_get(t) ==
  /\ pc[t] = "get" /\ ~PassesNull(t)
  /\ held' = [held EXCEPT ![t] = Found(Topic(t))]
  /\ raced' = IF Topic(t) # NULL /\ \E u \in Threads \ {t} : Window(u) /\ Topic(u) = Topic(t)
              THEN raced \cup {Topic(t)} ELSE raced
  /\ Goto(t, "V_get")
  /\ UNCHANGED <<req, round, fresh, reply, dict, heap, live, sem_lock, crashed>>

(* mutant: the V after dictionary_get is forgotten *)
V_get_forgotten(t) ==
  /\ pc[t] = "V_get"
  /\ Goto(t, "branch")
  /\ UNCHANGED <<req, round, held, fresh, reply, dict, heap, live, sem_lock, crashed, raced>>

V_get(t) ==
  /\ pc[t] = "V_get"
  /\ sem_lock' = 1
  /\ Goto(t, "branch")
  /\ UNCHANGED <<req, round, held, fresh, reply, dict, heap, live, crashed, raced>>

(* What the handler does with the pointer it got *)

Builds(t) ==
  LET kind == req[t].kind
  IN  \/ kind \in {"post", "say", "import"}
      \/ kind = "conversation" /\ held[t] = NULL
      \/ kind = "join" /\ round[t] = 1 /\ held[t] = NULL

(* mutant: the new entry replaces the conversation *)
Appended_replaces(t, old) == IF req[t].kind \in {"say", "post"} THEN <<t>> ELSE old

(* append_strings stops at its first NULL argument: a post or an import to *)
(* a topic that does not exist builds the empty string, and an entry whose *)
(* words are missing is not one.                                           *)
Appended(t, old) ==
  CASE req[t].kind \in {"say", "post"} ->
         IF req[t].lacks = "words" \/ (req[t].kind = "post" /\ held[t] = NULL)
         THEN old ELSE Append(old, t)
    [] req[t].kind = "import" -> old \o old
    [] OTHER -> <<>>

Build(t) ==
  /\ pc[t] = "branch" /\ ~PassesNull(t) /\ Builds(t)
  /\ \E p \in Ptrs \ live, old \in Contents(held[t]) :
       /\ heap' = [heap EXCEPT ![p] = Appended(t, old)]
       /\ live' = live \cup {p}
       /\ fresh' = [fresh EXCEPT ![t] = p]
  /\ Goto(t, "P_set")
  /\ UNCHANGED <<req, round, held, reply, dict, sem_lock, crashed, raced>>

(* A join that finds its topic reads it again before the first serve_form. *)
ReadAgain(t) ==
  /\ pc[t] = "branch" /\ req[t].kind = "join" /\ round[t] = 1 /\ held[t] # NULL
  /\ round' = [round EXCEPT ![t] = 2]
  /\ Goto(t, "P_get")
  /\ UNCHANGED <<req, held, fresh, reply, dict, heap, live, sem_lock, crashed, raced>>

JustServe(t) ==
  /\ pc[t] = "branch" /\ ~Builds(t)
  /\ req[t].kind = "join" => round[t] # 1
  /\ Goto(t, "serve")
  /\ UNCHANGED <<req, round, held, fresh, reply, dict, heap, live, sem_lock, crashed, raced>>

(* mutants: the replaced string is not freed; the entry is removed with it *)
dictionary_set_free_leaks(t) ==
  /\ pc[t] = "free" /\ ~PassesNull(t)
  /\ Goto(t, "store")
  /\ UNCHANGED <<req, round, held, fresh, reply, dict, heap, live, sem_lock, crashed, raced>>

dictionary_set_free_removes(t) ==
  /\ pc[t] = "free" /\ ~PassesNull(t)
  /\ live' = live \ {dict[Topic(t)]}
  /\ dict' = [dict EXCEPT ![Topic(t)] = NULL]
  /\ Goto(t, "store")
  /\ UNCHANGED <<req, round, held, fresh, reply, heap, sem_lock, crashed, raced>>

(* dictionary_set, first half: free_value on the string being replaced *)
dictionary_set_free(t) ==
  /\ pc[t] = "free" /\ ~PassesNull(t)
  /\ live' = live \ {dict[Topic(t)]}
  /\ Goto(t, "store")
  /\ UNCHANGED <<req, round, held, fresh, reply, dict, heap, sem_lock, crashed, raced>>

(* mutant: the handler goes on with the string it read *)
dictionary_set_store_oldheld(t) ==
  /\ pc[t] = "store"
  /\ dict' = [dict EXCEPT ![Topic(t)] = fresh[t]]
  /\ fresh' = [fresh EXCEPT ![t] = NULL]
  /\ Goto(t, "V_set")
  /\ UNCHANGED <<req, round, held, reply, heap, live, sem_lock, crashed, raced>>

(* dictionary_set, second half: the dictionary owns the new string.  The   *)
(* handler goes on with the same pointer (new_mes, new_str); say and join  *)
(* do not use it again.                                                    *)
dictionary_set_store(t) ==
  /\ pc[t] = "store"
  /\ dict' = [dict EXCEPT ![Topic(t)] = fresh[t]]
  /\ held' = [held EXCEPT ![t] = IF req[t].kind = "say" THEN NULL ELSE fresh[t]]
  /\ fresh' = [fresh EXCEPT ![t] = NULL]
  /\ Goto(t, "V_set")
  /\ UNCHANGED <<req, round, reply, heap, live, sem_lock, crashed, raced>>

(* mutant: the V after dictionary_set is forgotten *)
V_set_forgotten(t) ==
  /\ pc[t] = "V_set"
  /\ IF req[t].kind = "join"
     THEN round' = [round EXCEPT ![t] = 3] /\ Goto(t, "P_get")
     ELSE Goto(t, "serve") /\ UNCHANGED round
  /\ UNCHANGED <<req, held, fresh, reply, dict, heap, live, sem_lock, crashed, raced>>

V_set(t) ==
  /\ pc[t] = "V_set"
  /\ sem_lock' = 1
  /\ IF req[t].kind = "join"
     THEN round' = [round EXCEPT ![t] = 3] /\ Goto(t, "P_get")
     ELSE Goto(t, "serve") /\ UNCHANGED round
  /\ UNCHANGED <<req, held, fresh, reply, dict, heap, live, crashed, raced>>

serve_form(t) ==
  /\ pc[t] = "serve"
  /\ \E c \in Contents(held[t]) : reply' = [reply EXCEPT ![t] = Append(@, c)]
  /\ \/ /\ req[t].kind = "join" /\ round[t] = 2
        /\ round' = [round EXCEPT ![t] = 3] /\ Goto(t, "P_get")
     \/ /\ req[t].kind = "import" /\ round[t] = 1
        /\ Goto(t, "connect") /\ UNCHANGED round
     \/ /\ ~(req[t].kind = "join" /\ round[t] = 2)
        /\ ~(req[t].kind = "import" /\ round[t] = 1)
        /\ Goto(t, "close") /\ UNCHANGED round
  /\ UNCHANGED <<req, held, fresh, dict, heap, live, sem_lock, crashed, raced>>

(* The process dies in the hands of t.                                     *)
Die(t) ==
  /\ crashed' = t
  /\ UNCHANGED <<pc, req, round, held, fresh, reply, dict, heap, live, sem_lock, raced>>

NullCrash(t) == PassesNull(t) /\ (pc[t] = "headers" => SendsBlankLine(t)) /\ Die(t)

(* What may kill the process and may not: reading a string that is no      *)
(* longer there; the method that a refused line leaves uninitialised, in   *)
(* clienterror; the address list that getaddrinfo did not set; sprintf     *)
(* with a topic as its format, into a buffer of fixed size.                *)
Crash(t) ==
  /\ \/ /\ pc[t] \in {"branch", "serve"} /\ MayCrash(held[t])
        /\ pc[t] = "branch" => req[t].kind \in {"post", "say", "import"}
     \/ pc[t] = "line" /\ req[t].kind = "garbage"
     \/ pc[t] = "connect" /\ (req[t].host = "unresolved" \/ req[t].topic \in Unprintable)
     \/ pc[t] = "await" /\ req[t].host = "refused"
  /\ Die(t)

(* import: Open_clientfd and the request line "GET /conversation?topic=".  *)
(* When the host is this server, main accepts it as one more connection.   *)
Connect(t) ==
  /\ pc[t] = "connect"
  /\ IF req[t].host # "self" THEN Goto(t, "await") /\ UNCHANGED req
     ELSE \E u \in Threads :
            /\ pc[u] = "start"
            /\ req' = [req EXCEPT ![u] =
                  [kind |-> "conversation", topic |-> req[t].topic, lacks |-> "nothing",
                   host |-> "self", rtopic |-> NULL, client |-> t]]
            /\ pc' = [pc EXCEPT ![t] = "await", ![u] = "line"]
  /\ UNCHANGED <<round, held, fresh, reply, dict, heap, live, sem_lock, crashed, raced>>

(* import: the first line of the answer.  End of file returns from doit; a *)
(* status line is taken for a request of an unknown version and, like a    *)
(* refused line, answered by clienterror; only a request-like line goes    *)
(* on, with its own topic.  A host that says nothing is waited for, and    *)
(* read_requesthdrs never leaves without a blank line.                     *)
Await(t) ==
  /\ pc[t] = "await" /\ req[t].host \notin {"quiet", "endless"}
  /\ req[t].host = "self" => \E u \in Threads : req[u] # NULL /\ req[u].client = t /\ reply[u] # <<>>
  /\ IF req[t].host = "request"
     THEN round' = [round EXCEPT ![t] = 2] /\ Goto(t, "P_get")
     ELSE Goto(t, "close") /\ UNCHANGED round
  /\ UNCHANGED <<req, held, fresh, reply, dict, heap, live, sem_lock, crashed, raced>>

(* go_doit: close the connection and end the thread *)
Close(t) ==
  /\ pc[t] = "close"
  /\ Goto(t, "done")
  /\ UNCHANGED <<req, round, held, fresh, reply, dict, heap, live, sem_lock, crashed, raced>>

Step(t) ==
  /\ crashed = NULL
  /\ \/ ReadLine(t) \/ ReadHeaders(t)
     \/ P(t) \/ dictionary_get(t) \/ V_get(t)
     \/ Build(t) \/ ReadAgain(t) \/ JustServe(t)
     \/ dictionary_set_free(t) \/ dictionary_set_store(t) \/ V_set(t)
     \/ serve_form(t) \/ Connect(t) \/ Await(t) \/ Close(t)
     \/ NullCrash(t)

Next == \E t \in Threads :
          \/ crashed = NULL /\ Accept(t)
          \/ Step(t)
          \/ crashed = NULL /\ Crash(t)

Spec == Init /\ [][Next]_vars

(* The kernel runs every thread that can run.  Nothing is assumed of the   *)
(* order in which sem_wait admits threads: a request uses the lock         *)
(* finitely often, so weak fairness is enough.                             *)
Fairness == \A t \in Threads : WF_vars(Step(t))

FairSpec == Spec /\ Fairness

-----------------------------------------------------------------------------
(* Safety *)

InSection(t) == pc[t] \in {"get", "V_get", "free", "store", "V_set"}

(* sem_lock serialises every access to global_dic: at most one thread is   *)
(* between a P and the matching V, and the semaphore is 0 exactly then, so *)
(* no handler leaves a path with the lock still taken.                     *)
LockInv ==
  /\ \A t, u \in Threads : InSection(t) /\ InSection(u) => t = u
  /\ sem_lock = 0 <=> \E t \in Threads : InSection(t)

(* Inside dictionary_set the slot of a topic holds, for a moment, the      *)
(* address of the string that was just freed.                              *)
Stale(k) == \E t \in Threads : pc[t] = "store" /\ Topic(t) = k

(* A string a handler has built is its own until dictionary_set takes it:  *)
(* allocated, in no dictionary slot and in no other handler's hands.       *)
PrivateUntilStored ==
  \A t \in Threads :
    /\ fresh[t] # NULL <=> pc[t] \in {"P_set", "free", "store"}
    /\ fresh[t] # NULL =>
         /\ fresh[t] \in live
         /\ \A k \in Topics : dict[k] = fresh[t] => Stale(k)
         /\ \A u \in Threads : fresh[u] = fresh[t] => u = t

(* dictionary_set frees each value once: every slot holds an allocated     *)
(* string that no other slot holds, save the one being overwritten.        *)
DictionaryOwnsValues ==
  \A k \in Topics :
    dict[k] # NULL /\ ~Stale(k) =>
      /\ dict[k] \in live
      /\ \A l \in Topics : dict[l] = dict[k] => l = k \/ Stale(l)

(* No conversation string leaks: an allocated one is in the dictionary or  *)
(* in the hands of the handler that will store it.                         *)
NoLeak ==
  \A p \in live :
    \/ \E k \in Topics : dict[k] = p /\ ~Stale(k)
    \/ \E t \in Threads : fresh[t] = p

Ownership == PrivateUntilStored /\ DictionaryOwnsValues /\ NoLeak

Says(c) == {c[i] : i \in 1..Len(c)}

(* What the client of t was told is in the conversation: a say is answered *)
(* when stored, a post is answered with the new text.                      *)
Acknowledged(t) ==
  /\ reply[t] # <<>>
  /\ \/ req[t].kind = "say" /\ req[t].lacks # "words"
     \/ req[t].kind = "post" /\ t \in Says(reply[t][1])

Quiet == \A t \in Threads : pc[t] # "store"

(* On a topic where no two requests ever overlapped nothing goes wrong:    *)
(* an entry its client was told about stays in the conversation, what a    *)
(* thread is about to store extends what is there, and no reply shows      *)
(* bytes of a freed string.                                                *)
ExactWithoutOverlap ==
  \A k \in Topics \ raced :
    /\ \A t \in Threads :
         (Quiet /\ pc[t] # "start" /\ req[t].topic = k /\ Acknowledged(t)) =>
            dict[k] # NULL /\ t \in Says(heap[dict[k]])
    /\ \A t \in Threads :
         (pc[t] = "free" /\ Topic(t) = k /\ dict[k] # NULL) =>
            /\ Len(heap[dict[k]]) <= Len(heap[fresh[t]])
            /\ SubSeq(heap[fresh[t]], 1, Len(heap[dict[k]])) = heap[dict[k]]
    /\ \A t \in Threads :
         pc[t] # "start" /\ req[t].topic = k /\ req[t].rtopic = k =>
            \A i \in 1..Len(reply[t]) : Garbled \notin Says(reply[t][i])

(* A request that has everything the handler uses: a line it can parse,    *)
(* a topic, the type and the message of a post, and for an import a topic  *)
(* it can format and a host whose answer does not kill it.                 *)
Complete(r) ==
  /\ r.kind # "garbage"
  /\ r.kind \in Posts \cup {"conversation", "say", "import"} => r.topic # NULL
  /\ r.kind \in Posts => r.lacks # "type"
  /\ r.kind = "post" => r.lacks # "message"
  /\ r.kind = "import" =>
       /\ r.topic \notin Unprintable
       /\ r.host \notin {"unresolved", "refused"}
       /\ r.host = "request" => r.rtopic # NULL

(* A complete request cannot kill the server by itself: the process dies   *)
(* in its thread only when another request on the same topic overlapped    *)
(* it, which freed the string it reads.                                    *)
CompleteDiesOnlyRacing ==
  crashed # NULL /\ Complete(req[crashed]) => Topic(crashed) \in raced

-----------------------------------------------------------------------------
(* What a step may never do *)

(* A topic that exists never disappears from global_dic, whatever the      *)
(* order in which joins, says and imports create and replace it.           *)
TopicsStay == [][\A k \in Topics : dict[k] # NULL => dict'[k] # NULL]_vars

-----------------------------------------------------------------------------
(* Liveness *)

(* An import from a host that does not answer to the end, this server      *)
(* among them.                                                             *)
WaitsForHost(r) == r.kind = "import" /\ r.host \in {"self", "quiet", "endless"}

(* Every accepted connection whose client ends its headers is answered and *)
(* closed, however many imports wait for hosts that stay silent, unless it *)
(* is such an import itself or the process dies.                           *)
RequestsEnd ==
  \A t \in Threads :
    pc[t] = "line" /\ SendsBlankLine(t) /\ ~WaitsForHost(req[t])
      ~> pc[t] = "done" \/ crashed # NULL

-----------------------------------------------------------------------------
(* What the tests of the repository ask of the server *)

Finished == \A t \in Threads : pc[t] = "done"

(* stress.rkt: after all the says of a topic have been answered, each of   *)
(* their entries is in the conversation.                                   *)
NoEntryMissing ==
  Finished /\ crashed = NULL =>
    \A t \in Threads :
      req[t].kind = "say" => t \in Says(heap[dict[req[t].topic]])

(* stress.rkt: an import from the server itself comes back.                *)
ImportsEnd ==
  \A t \in Threads :
    pc[t] = "line" /\ SelfImport(req[t]) ~> pc[t] = "done" \/ crashed # NULL
=============================================================================
