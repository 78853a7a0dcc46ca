---------------------------- MODULE MCStringTables ----------------------------
(* A history of two keys, so that it fills and wraps.  Two keys are those of classes, *)
(* one is no text and one is unreadable.                                              *)
EXTENDS StringTables

MCKeys   == {<<"1", "0">>, <<"1", "1">>, <<"2", "0">>, <<"2", "1">>}
MCClass  == {<<"1", "0">>, <<"2", "0">>}
MCNoText == {<<"1", "1">>}

\* What a reference holds that nobody has is not looked at again.
InUse == IF items = None THEN {} ELSE Held(items, baseline)
MCView == <<historyVars, sent, items, [r \in InUse \ {None} |-> cells[r]], baseline, entity_classes, entry>>
==============================================================================
