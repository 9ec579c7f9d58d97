----------------------------- MODULE MCImports ------------------------------
(* Instances of Imports for TLC. *)
EXTENDS Imports, TLC

\* a1 and a2 are versions of one sale, b is another sale, x lacks a mandatory
\* field, o is blank.
MCLines == {"a1", "a2", "b", "x", "o"}

MCBlank == {"o"}

MCKeyOf == [l \in MCLines |-> IF l \in {"a1", "a2"} THEN "ka" ELSE l]

MCNeeds == [l \in MCLines |-> CASE l = "a2" -> {"seller"}
                               [] l = "x" -> {"missing field"}
                               [] OTHER -> {}]

MCNames == {"seller"}

\* Two versions of a sale in both orders, the same line twice, a line that is
\* always blocked, and blank lines between.
MCFiles == {<<"a1", "o", "a2", "b">>, <<"a2", "a1", "a1">>, <<"x", "o", "a1">>}
=============================================================================
