----------------------------- MODULE MCScanners -----------------------------
(* The two programs of the repository that only read text: a run is either *)
(* a parse of a script or a call of matchlab.                              *)
EXTENDS Parse, Matchlab

a == 97
b == 98

-----------------------------------------------------------------------------
(* Scripts: every line of up to four words, and files of three good lines. *)
Words == {<<a>>, <<a, QUOTE, BAR, SPACE, QUOTE, b>>, <<QUOTE, QUOTE>>, <<DOLLAR, a>>, <<DOLLAR, a, b>>,
          <<AT>>, <<BAR>>, <<BAR, BAR>>, <<EQUAL>>, <<repeat>>, <<50>>, <<52, 48>>, <<NUMBER_SIGN>>, <<QUOTE, a>>}
Joined(words) == FlattenSeq([i \in DOMAIN words |-> IF i = 1 THEN words[i] ELSE <<SPACE>> \o words[i]])
Lines == {Joined(words) : words \in UNION {[1..n -> Words] : n \in 1..4}}

Ref(name) == <<DOLLAR>> \o name
GoodLines ==
  {Joined(<<Ref(x), <<EQUAL>>, <<a>>, Ref(y)>>) : x, y \in {<<a>>, <<a, b>>, <<b>>}}
    \cup {Joined(<<<<repeat>>, <<49, 50>>, Ref(<<b, a>>), <<EQUAL>>, <<a>>, <<b>>, <<BAR>>, <<b>>, <<AT>>,
                   Ref(<<b>>), <<BAR>>, <<a>>, <<AT, DOLLAR, a>>>>),
          Joined(<<<<a>>, <<BAR, BAR>>, <<b>>, <<BAR, BAR>>, <<b>>, <<a, BAR, BAR, a>>>>),
          <<13, a, BAR, 11, b, 12>>, <<a, BAR, b, BAR, a, BAR, BAR, b>>, <<DOLLAR, a, EQUAL, a>>, <<>>,
          <<a, 200>>, [i \in 1..19 |-> a]}
MCScriptFiles == {<<l>> : l \in Lines} \cup {<<l, m, n>> : l, m, n \in GoodLines}

-----------------------------------------------------------------------------
(* Arguments: strings over the letters of a model, and the boundaries of   *)
(* its runs.                                                               *)
Run(c, n) == [i \in 1..n |-> c]
StringsOver(chars, n) == UNION {[1..k -> chars] : k \in 0..n}
StringsA == StringsOver({ch_l, ch_t, 49}, 4)
              \cup {Run(ch_l, p) \o Run(ch_t, q) \o Run(49, r) : p \in 0..4, q \in 0..6, r \in 0..4}
LongB == {<<ch_i, ch_i>> \o d \o e : d \in {Run(49, n) : n \in {3, SMALL_CHUNK, SMALL_CHUNK + 1}},
                                     e \in {<<>>, <<ch_u>> \o Run(49, SMALL_CHUNK), <<ch_u>> \o Run(49, SMALL_CHUNK + 1),
                                            <<ch_u>> \o Run(49, SMALL_CHUNK + 1) \o <<66>>}}
LongC == {<<ch_f>> \o Run(65, n) \o <<ch_p, ch_p>> \o Run(65, (n + 1) \div 2) \o <<49>> :
            n \in (LARGE_CHUNK - 1)..(LARGE_CHUNK + 2)}
StringsB == StringsOver({ch_i, 49, ch_u, 66}, 4)
              \cup {Run(ch_i, p) \o d \o Run(ch_u, q) \o e \o Run(66, r) : p \in 1..3, q \in 0..3, r \in 0..3,
                      d \in {<<49>>, <<49, 50>>, <<49, 50, 51>>, <<49, 49, 49, 49>>},
                      e \in {<<49>>, <<50, 49>>, <<49, 50>>, <<51, 50, 49>>, <<49, 49, 49, 49>>}}
              \cup LongB
StringsC == StringsOver({ch_f, 66, ch_p, 49}, 4)
              \cup {Run(ch_f, p) \o u \o Run(ch_p, q) \o v \o Run(49, r) : p \in 0..3, q \in 1..3, r \in 0..4,
                      u \in {<<65>>, <<66>>, <<66, 65>>, <<65, 66, 65>>, <<66, 65, 66>>},
                      v \in {<<65>>, <<66>>, <<65, 65>>, <<66, 66>>, <<65, 65, 65>>}}
              \cup LongC

Flagged(models, strings) ==
  {flags \o <<s>> : s \in strings, flags \in UNION {{<<m>>, <<m, flag_t>>, <<flag_t, m>>} : m \in models}}

(* Several arguments: accepted and refused ones after one another.         *)
B1 == <<ch_i, ch_i, 49, ch_u, 49, 66>>
B2 == <<ch_i, ch_i, 49, 50, ch_u, 50, 49, 66>>
C1 == <<ch_f, 65, ch_p, ch_p, 65, 49>>
C2 == <<ch_f, ch_f, ch_f, 65, ch_p, ch_p, 65, 49>>
C3 == <<ch_f, 65, 66, 65, ch_p, ch_p, 65, 65, 49>>
Several == {<<flag_b, flag_t, x, y, z>> : x, y, z \in {B1, B2, <<ch_i>>, <<>>}}
             \cup {<<flag_c, flag_t, x, y, z>> : x, y, z \in {C1, C2, C3, <<ch_f, 66, ch_p, ch_p, 66, 49>>, <<>>}}
             \cup {<<flag_b, B1, x, B2>> : x \in LongB} \cup {<<flag_c, flag_t, C1, x, C3>> : x \in LongC}
             \cup {<<flag_a, x, y>> : x, y \in {<<ch_t, 49>>, <<>>, flag_b}}

MCArgLists ==
  Flagged({flag_a}, StringsA) \cup {<<s>> : s \in StringsA} \cup {<<flag_t, s>> : s \in StringsA}
    \cup Flagged({flag_b}, StringsB) \cup Flagged({flag_c}, StringsC) \cup Several
    \cup {<<>>} \cup {<<f>> : f \in Models \cup {flag_t}} \cup {<<f, g>> : f, g \in Models \cup {flag_t}}
MCEnvironment == Run(101, 16) \o <<0>>
MCStaleBytes == {<<>>, <<200, 201, 202, 203, 204>>}

-----------------------------------------------------------------------------
Init ==
  \/ ParseInit /\ MatchIdle /\ args = <<>> /\ mem = <<>> /\ stale = <<>> /\ matching = "none"
  \/ MatchInit /\ ParseIdle /\ file = <<>> /\ step = "none"
Next == (ParseNext /\ UNCHANGED matchVars) \/ (MatchNext /\ UNCHANGED parseVars)
Spec == Init /\ [][Next]_<<parseVars, matchVars>>
=============================================================================
