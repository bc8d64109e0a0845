----------------------------- MODULE MCRequest ------------------------------
(* Small requests for tinychat.c and its rio buffer. *)
EXTENDS Request

Pair(n, v) == [name |-> n, value |-> v]
a == 97
b == 98

Asks(methods, versions, paths, queries, heads, types, forms) ==
  {[method |-> m, version |-> v, path |-> p, query |-> q, headers |-> h, type |-> t, form |-> f, claim |-> NULL,
    host |-> IF h = <<270, 264, 266>> THEN <<272, 272, 272, 272, 272, 272, 272, 272, 272>> ELSE <<272>>] :
      m \in methods, v \in versions, p \in paths, q \in queries, h \in heads, t \in types, f \in forms}

Field == <<Pair(<<a>>, <<b>>)>>
Escaped == <<Pair(<<a>>, <<SP, PERCENT>>), Pair(<<SP>>, <<>>)>>
Twice == <<Pair(<<a>>, <<PLUS>>), Pair(<<a>>, <<AMP>>)>>

(* Lengths a post may announce: too long, -1, -2, the largest int of eight *)
(* bits, and one that is cut to a negative one.                            *)
Claims == {<<57>>, <<MINUS, 49>>, <<MINUS, 50>>, <<49, 50, 55>>, <<50, 48, 48>>}

(* Gets with and without a query, refused lines, and posts with their      *)
(* headers in several orders and spellings.                                *)
MCRequests ==
  Asks({GET, 257, POST, 274}, {HTTP_1_0, 263, 276}, {<<300>>}, {<<>>}, {<<>>, <<270>>}, {form_urlencoded}, {<<>>})
    \cup Asks({GET}, {HTTP_1_1}, {<<300>>, <<SP>>}, {<<>>, Field, Escaped}, {<<270>>}, {form_urlencoded}, {<<>>})
    \cup Asks({POST}, {HTTP_1_1}, {<<300>>}, {Field},
              {<<270, 264, 266>>, <<271, 267, 265>>, <<264, 266>>, <<266, 264>>, <<270, 266>>},
              {form_urlencoded}, {Field, Escaped, Twice})
    \cup Asks({POST}, {HTTP_1_1}, {<<300>>}, {<<>>}, {<<271, 267, 265>>}, {269, 278}, {Twice})
    \cup {[r EXCEPT !.claim = c] : c \in Claims,
             r \in Asks({POST}, {HTTP_1_1}, {<<300>>}, {<<>>}, {<<271, 267, 265>>}, {form_urlencoded}, {<<>>, Field})}

(* One line that is not three words, as trouble.rkt sends it. *)
MCGarbage == Asks({GET}, {HTTP_1_0}, {<<SP>>}, {<<>>}, {<<>>}, {form_urlencoded}, {<<>>})
=============================================================================
