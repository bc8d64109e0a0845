----------------------------- MODULE MCTinyChat -----------------------------
(* Small workloads for TinyChat. *)
EXTENDS TinyChat

R(kind, topic) == [kind |-> kind, topic |-> topic, lacks |-> "nothing",
                   host |-> "self", rtopic |-> NULL, client |-> NULL]

Import(topic, host, rtopic) ==
  [R("import", topic) EXCEPT !.host = host, !.rtopic = rtopic]

Topical == Posts \cup {"conversation", "say"}

(* the topic of the imports and of the requests with something missing *)
home == CHOOSE k \in Topics \ Unprintable : TRUE

(* what the tests send, on every topic, and imports from every host *)
Full ==
  {R(kind, k) : kind \in Topical, k \in Topics}
    \cup {R(kind, NULL) : kind \in {"welcome", "unsupported", "silent", "partial"}}
    \cup {Import(home, h, NULL) : h \in {"self", "closed", "quiet", "endless", "status"}}
    \cup {Import(home, "request", k) : k \in Topics}
    \cup {Import(k, "status", NULL) : k \in Unprintable}

(* requests from which something is missing, or that are none *)
Bad ==
  {R("garbage", NULL)}
    \cup {R(kind, NULL) : kind \in Topical \cup {"import"}}
    \cup {[R(kind, home) EXCEPT !.lacks = l] : kind \in Posts, l \in {"type", "words"}}
    \cup {[R("post", home) EXCEPT !.lacks = "message"], [R("say", home) EXCEPT !.lacks = "words"]}
    \cup {Import(home, h, NULL) : h \in {"unresolved", "refused", "request"}}

AllClients == Full \cup Bad

(* the requests of stress.rkt: one round of says, and the imports *)
StressClients == {R("say", k) : k \in Topics}
ImportClients == {Import(k, "self", NULL) : k \in Topics}
=============================================================================
