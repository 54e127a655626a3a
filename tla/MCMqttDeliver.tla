---------------------------- MODULE MCMqttDeliver ----------------------------
(* Filters of every form and the names that tell them apart.               *)
EXTENDS MqttDeliver

a == <<"a">>
b == <<"b">>

MCFilter == {<<a, b>>, <<a, Plus, b>>, <<a, Sharp>>}
MCTopic  == {<<a, b>>, <<a, b, b>>, <<a, <<>>>>, <<a \o b>>}

(* The character loop agrees with the meaning of a filter for every filter *)
(* and name of up to three levels, but for the two forms TopicMatch names. *)
Literal   == {<<>>, <<"a">>, <<"a", "b">>}
Names     == UNION {[1 .. n -> Literal] : n \in 1 .. 3} \ {<<<<>>>>}
Filters   == {f \in UNION {[1 .. n -> Literal \cup {Plus, Sharp}] : n \in 1 .. 3} :
                 /\ f # <<<<>>>>
                 /\ \A k \in 1 .. Len(f) - 1 : f[k] # Sharp}

ASSUME MatchAssumption ==
    \A f \in Filters, n \in Names :
        (f = n \/ TopicMatched(Chars(f), Chars(n)))
            <=> (Accepts(f, n) \/ LongerLevel(f, n) \/ EndsEarly(f, n))
===============================================================================
