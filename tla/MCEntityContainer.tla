--------------------------- MODULE MCEntityContainer ---------------------------
(* Two indexes, three classes of which two are tracked, two fields. *)
EXTENDS EntityContainer

MCBaseline == [c \in Classes |-> [f \in Fields |-> 0]]
==============================================================================
