------------------------------ MODULE StringTables -----------------------------
(***************************************************************************)
(* haste_core::stringtables and haste_core::instancebaseline: the instance *)
(* baseline table between create, update, full update and reset, and the   *)
(* baseline that is read from it.  A user datum is behind a reference that *)
(* table and baseline share (Arc<SyncUnsafeCell>): an update writes        *)
(* through it, a full update replaces it.                                  *)
(*                                                                         *)
(* `sent` is the sender's table, dense from index 0, with distinct keys;   *)
(* it is the reference.  A key is a pair, of what a reference into the     *)
(* history may stand for and the rest.  Those of Classes read as the id of *)
(* a class, written the one way the sender writes it, so such a key is     *)
(* also the class it names.                                                *)
(***************************************************************************)
EXTENDS StringHistory, FiniteSets, FiniteSetsExt, Functions

CONSTANTS
  Classes,      \* keys that read as the id of a class
  NoText,       \* keys that are not UTF-8
  Data,         \* user data
  None,         \* Option::None
  MaxItems,     \* bound: items of the table
  MaxEntries    \* bound: entries of one message

ASSUME TableAssumption ==
  /\ MaxItems \in Nat /\ MaxEntries \in Nat
  /\ Classes \subseteq Keys /\ NoText \subseteq Keys \ Classes
  /\ Data # {} /\ None \notin Data /\ None \notin Keys /\ None \notin Nat
  /\ \A key \in Keys : key = <<key[1], key[2]>>

VARIABLES
  sent,              \* the sender's table: index to key and data, while it exists
  items,             \* StringTable.items, or None where there is no table
  cells,             \* what each reference holds
  baseline,          \* InstanceBaseline.data: class to reference
  entity_classes,    \* Context.entity_classes is there
  entry              \* entries of the message being read, or None between messages

tableVars == <<sent, items, cells, baseline, entity_classes, entry>>
vars == <<historyVars, tableVars>>

Refs == 0..(3 * MaxItems)
Item == [string : Keys \cup {None}, user_data : Refs \cup {None}]

ASSUME NoTableAssumption == \A n \in 0..MaxItems : None \notin [0..(n - 1) -> Item]

\* References that table or baseline hold, and one that none of them does.
Held(its, base) == {its[i].user_data : i \in DOMAIN its} \cup {base[k] : k \in Classes}
Fresh(its, base) == CHOOSE r \in Refs : r \notin Held(its, base)

TypeOK ==
  /\ history \in [0..(HISTORY_SIZE - 1) -> Keys \cup {NoKey}]
  /\ history_delta_index \in 0..MaxEntries /\ list \in Seq(Keys)
  /\ items # None => DOMAIN items \subseteq 0..(MaxItems - 1) /\ Range(items) \subseteq Item
  /\ cells \in [Refs -> Data] /\ baseline \in [Classes -> Refs \cup {None}]
  /\ entity_classes \in BOOLEAN /\ entry \in 0..MaxEntries \cup {None}

Init ==
  /\ HistoryInit
  /\ sent = <<>> /\ items = None
  /\ cells = [r \in Refs |-> CHOOSE d \in Data : TRUE]
  /\ baseline = [k \in Classes |-> None]
  /\ entity_classes = FALSE /\ entry = None

------------------------------------------------------------------------------
\* Mutant of Refreshed: a class that has a baseline keeps it.
RefreshedOnce(its, base, read) ==
  [k \in Classes |-> IF base[k] # None THEN base[k]
                     ELSE LET at == {i \in read : its[i].string = k}
                          IN IF at = {} THEN None ELSE its[CHOOSE i \in at : TRUE].user_data]

\* Each class whose key is among the items read gets its reference.
Refreshed(its, base, read) ==
  [k \in Classes |-> LET at == {i \in read : its[i].string = k}
                     IN IF at = {} THEN base[k] ELSE its[CHOOSE i \in at : TRUE].user_data]

\* A key that is text and no class's: it is no number, which is an error, or an index out
\* of range, which is a panic.
Unreadable(its) == {i \in DOMAIN its : its[i].string \in Keys \ (Classes \cup NoText)}

\* InstanceBaseline::update, over the items in the order of a hash map.  At an unreadable
\* key it stops, with the classes refreshed that came before.  What a caller may do after
\* the error is go on, with nothing missed or behind commands that were, or reset.
Refresh(its) ==
  \E read \in SUBSET DOMAIN its :
    /\ IF Unreadable(its) = {} THEN read = DOMAIN its ELSE read \cap Unreadable(its) = {}
    /\ baseline' = Refreshed(its, baseline, read)

\* SvcCreateStringTable: a table, and parse_update begins.
CreateTable ==
  /\ entry = None /\ items = None
  /\ items' = <<>> /\ entry' = 0
  /\ HistoryReset
  /\ UNCHANGED <<sent, cells, baseline, entity_classes>>

\* SvcUpdateStringTable: parse_update begins.
UpdateTable ==
  /\ entry = None /\ items # None
  /\ entry' = 0
  /\ HistoryBegin
  /\ UNCHANGED <<sent, items, cells, baseline, entity_classes>>

\* Mutant of Write: no data in an entry empties the item.
WriteAlways(its, i, string, data) ==
  [k \in DOMAIN its \cup {i} |->
     IF k # i THEN its[k]
     ELSE [string |-> IF i \in DOMAIN its THEN its[i].string ELSE string,
           user_data |-> IF data = None THEN None ELSE Fresh(its, baseline)]]

\* and_modify or or_insert_with: an item there keeps its key and its reference.
Write(its, i, string, data) ==
  [k \in DOMAIN its \cup {i} |->
     IF k # i THEN its[k]
     ELSE IF i \in DOMAIN its /\ its[i].user_data # None THEN its[i]
     ELSE [string |-> IF i \in DOMAIN its THEN its[i].string ELSE string,
           user_data |-> IF data = None THEN None ELSE Fresh(its, baseline)]]

\* Entry of index i: an item the sender has, or its next one, which comes with
\* its key.  A key may be written as a reference to a key of the list.
ReadEntry(i, key, with_key, data) ==
  LET refs == {n \in 1..Len(list) : list[n][1] = key[1]}
      new  == i \notin DOMAIN sent
  IN /\ entry # None /\ entry < MaxEntries
     /\ i \in 0..Cardinality(DOMAIN sent) /\ i < MaxItems
     /\ IF new THEN with_key /\ \A j \in DOMAIN sent : sent[j].key # key
               ELSE sent[i].key = key
     /\ sent' = [j \in DOMAIN sent \cup {i} |->
                   IF j # i THEN sent[j]
                   ELSE [key |-> key, data |-> IF data = None /\ ~new THEN sent[i].data ELSE data]]
     /\ \/ \E n \in refs :
             LET read == <<history[HistoryIndex(n - 1)][1], key[2]>>
             IN /\ with_key
                /\ HistoryAdd(key, read)
                /\ items' = Write(items, i, read, data)
        \/ /\ with_key
           /\ HistoryAdd(key, key)
           /\ items' = Write(items, i, key, data)
        \/ /\ ~with_key
           /\ items' = Write(items, i, None, data)
           /\ UNCHANGED historyVars
     /\ cells' = IF data = None THEN cells ELSE [cells EXCEPT ![items'[i].user_data] = data]
     /\ entry' = entry + 1
     /\ UNCHANGED <<baseline, entity_classes>>

\* parse_update is done; the baseline is updated.
EndUpdate ==
  /\ entry # None
  /\ entry' = None
  /\ IF entity_classes THEN Refresh(items) ELSE UNCHANGED baseline
  /\ UNCHANGED <<historyVars, sent, items, cells, entity_classes>>

\* Mutant of WriteFull: what is there keeps its reference, and with it its data.
WriteFullNew(its, table, pool) ==
  [i \in DOMAIN its \cup DOMAIN table |->
     IF i \in DOMAIN its THEN its[i]
     ELSE [string |-> table[i].key, user_data |-> IF table[i].data = None THEN None ELSE pool[i]]]

\* do_full_update: every item's reference is replaced, its key is not.
WriteFull(its, table, pool) ==
  [i \in DOMAIN its \cup DOMAIN table |->
     IF i \notin DOMAIN table THEN its[i]
     ELSE [string |-> IF i \in DOMAIN its THEN its[i].string ELSE table[i].key,
           user_data |-> IF table[i].data = None THEN None ELSE pool[i]]]

\* The sender's table as it is, or, after commands that were skipped, with other
\* data and one more item.
LaterTables ==
  LET n == Cardinality(DOMAIN sent)
      more == IF n < MaxItems THEN {n, n + 1} ELSE {n}
  IN UNION {{t \in [0..(m - 1) -> [key : Keys, data : Data \cup {None}]] :
               /\ \A i \in DOMAIN sent : t[i].key = sent[i].key
               /\ \A i, j \in DOMAIN t : i # j => t[i].key # t[j].key} : m \in more}

\* DemStringTables, or the tables of a full packet.  Without entity classes the
\* handler bails, and the run with it.
FullUpdate(table) ==
  LET unused == Refs \ Held(items, baseline)
      pool   == CHOOSE p \in [DOMAIN table -> unused] : IsInjective(p)
  IN /\ entry = None /\ items # None /\ entity_classes
     /\ sent' = table
     /\ items' = WriteFull(items, table, pool)
     /\ cells' = [r \in Refs |-> IF \E i \in DOMAIN table : pool[i] = r /\ table[i].data # None
                                 THEN table[CHOOSE i \in DOMAIN table : pool[i] = r].data
                                 ELSE cells[r]]
     /\ Refresh(items')
     /\ UNCHANGED <<historyVars, entity_classes, entry>>

\* DemClassInfo.
ClassInfo ==
  /\ entry = None /\ ~entity_classes
  /\ entity_classes' = TRUE
  /\ IF items = None THEN UNCHANGED baseline ELSE Refresh(items)
  /\ UNCHANGED <<historyVars, sent, items, cells, entry>>

\* Parser::reset, after which the recording is read from its beginning.
Reset ==
  /\ entry = None
  /\ sent' = <<>> /\ items' = None
  /\ baseline' = [k \in Classes |-> None]
  /\ UNCHANGED <<historyVars, cells, entity_classes, entry>>

Next ==
  \/ CreateTable
  \/ UpdateTable
  \/ \E i \in 0..(MaxItems - 1), key \in Keys, with_key \in BOOLEAN, data \in Data \cup {None} :
       ReadEntry(i, key, with_key, data)
  \/ EndUpdate
  \/ \E table \in LaterTables : FullUpdate(table)
  \/ ClassInfo
  \/ Reset

Spec == Init /\ [][Next]_vars

------------------------------------------------------------------------------
\* by_id: what a class's baseline is at the moment.
by_id(k) == IF baseline[k] = None THEN None ELSE cells[baseline[k]]

\* The table is the sender's at every entry: keys written as references come out right, data that an entry leaves out stay, and a full update takes its data over.
ItemsAreSent ==
  items # None =>
    /\ DOMAIN items = DOMAIN sent
    /\ \A i \in DOMAIN sent :
         /\ items[i].string = sent[i].key
         /\ sent[i].data = IF items[i].user_data = None THEN None ELSE cells[items[i].user_data]

\* Between messages the baseline of every class is what the sender's table says, whether it was written through a shared reference or the reference was replaced; as long as no key of the table is text and no class's.
BaselineIsTable ==
  (entry = None /\ items # None /\ entity_classes /\ \A i \in DOMAIN sent : sent[i].key \in Classes \cup NoText) =>
    \A i \in DOMAIN sent : sent[i].key \in Classes => by_id(sent[i].key) = sent[i].data
==============================================================================
