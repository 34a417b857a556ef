---------------------------- MODULE MCDiscovery ----------------------------
(* Discovery on a small register map. *)
EXTENDS Discovery

CONSTANTS a, b, c, bad, s1, s2

\* Two labels that decode to one serial, one that decodes to another, and one
\* that std::stoll refuses.
MCDecode == [l \in {a, b, c, bad} |->
               CASE l = a -> s1 [] l = b -> s2 [] l = c -> s1 [] OTHER -> Unparsable]
=============================================================================
