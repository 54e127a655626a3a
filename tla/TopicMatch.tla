------------------------------ MODULE TopicMatch ------------------------------
(***************************************************************************)
(* Topic matching, sdk_src/protocol/mqtt/mqtt_client_common.c: the         *)
(* character loop of _is_topic_matched, and what MQTT 3.1.1 (4.7) means by *)
(* a match, level by level.                                                *)
(*                                                                         *)
(* A filter or a name is the sequence of its levels and a level is the     *)
(* sequence of its characters; Chars writes the string the code compares.  *)
(* "+" and "#" are levels of their own and "#" is the last one, as the     *)
(* comment on _is_topic_matched assumes.                                   *)
(***************************************************************************)
EXTENDS Naturals, Sequences, SequencesExt

Plus  == <<"+">>
Sharp == <<"#">>

Chars(levels) ==
    FoldLeft(LAMBDA s, level : s \o <<"/">> \o level, Head(levels), Tail(levels))

-------------------------------------------------------------------------------
(* The code.                                                               *)

(* The position after the level that character j of n belongs to.          *)
LevelEnd(n, j) ==
    CHOOSE k \in j + 1 .. Len(n) + 1 :
        /\ k = Len(n) + 1 \/ n[k] = "/"
        /\ \A m \in j + 1 .. k - 1 : n[m] # "/"

(* The positions of curf and curn when the loop over filter f and name n   *)
(* stops, from positions i and j.                                          *)
Scan(f, n) ==
    LET scan[i \in 1 .. Len(f) + 1, j \in 1 .. Len(n) + 1] ==
            IF i > Len(f) \/ j > Len(n)
            THEN <<i, j>>
            ELSE CASE f[i] = "+" /\ n[j] = "/" -> scan[i + 1, j]
                   [] f[i] = "+" /\ n[j] # "/" -> scan[i + 1, LevelEnd(n, j)]
                   [] f[i] = "#" /\ n[j] # "/" -> scan[i + 1, Len(n) + 1]
                   [] f[i] = n[j]              -> scan[i + 1, j + 1]
                   [] OTHER                    -> <<i, j>>
    IN  scan[1, 1]

(* _is_topic_matched                                                       *)
TopicMatched(f, n) ==
    LET i == Scan(f, n)[1]
        j == Scan(f, n)[2]
    IN  IF i > Len(f)
        THEN j > Len(n)
        ELSE \/ f[i] = "#"
             \/ i < Len(f) /\ f[i + 1] = "#"
             \/ f[i] = "+" /\ j > 1 /\ n[j - 1] = "/"

-------------------------------------------------------------------------------
(* The meaning: every level of the filter accepts the level of the name at *)
(* its place, and a last "#" stands for any further levels, none included. *)

LevelAccepts(f, n) == f = Plus \/ f = n

Accepts(filter, name) ==
    IF Last(filter) = Sharp
    THEN /\ Len(name) >= Len(filter) - 1
         /\ \A k \in 1 .. Len(filter) - 1 : LevelAccepts(filter[k], name[k])
    ELSE /\ Len(name) = Len(filter)
         /\ \A k \in 1 .. Len(filter) : LevelAccepts(filter[k], name[k])

-------------------------------------------------------------------------------
(* Where the two part.                                                     *)

(* The level before "/#" is a proper prefix of the name's level there:     *)
(* "a/#" and "ab".                                                         *)
LongerLevel(filter, name) ==
    LET k == Len(filter) - 1
    IN  /\ Last(filter) = Sharp /\ k >= 1 /\ k <= Len(name)
        /\ \A m \in 1 .. k - 1 : LevelAccepts(filter[m], name[m])
        /\ filter[k] # name[k] /\ IsPrefix(filter[k], name[k])

(* The name ends with an empty level where the filter has "+" and goes on: *)
(* "a/+/b" and "a/".                                                       *)
EndsEarly(filter, name) ==
    LET k == Len(name)
    IN  /\ k > 1 /\ k < Len(filter) /\ name[k] = <<>> /\ filter[k] = Plus
        /\ filter[k + 1] # Sharp
        /\ \A m \in 1 .. k - 1 : LevelAccepts(filter[m], name[m])
===============================================================================
