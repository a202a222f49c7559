--------------------------------- MODULE House ---------------------------------
(***************************************************************************)
(* How the service learns what the house contains when it starts: the      *)
(* structure file is fetched (adapter/discovery.py) and its nested         *)
(* controls are flattened (adapter/structure.py); then the system prompt   *)
(* is rendered from them (intent/system_prompt.py), and list_controls      *)
(* (intent/tools.py) finds what the prompt had to omit.                    *)
(*                                                                         *)
(* A JSON object is the sequence of its entries, whose keys are distinct;  *)
(* the same key may occur in two objects, at the top and below a control.  *)
(* An entry is "good", "malformed" (without a usable name or type),        *)
(* "broken" (no JSON object at all) or "unnested": good by itself, but its *)
(* subControls are neither empty nor an object. A key may be empty, which  *)
(* the model Control does not accept. Names are numbers in sorting order.  *)
(* The rest of the file - its root, msInfo, rooms and cats - is as it      *)
(* should be.                                                              *)
(***************************************************************************)
EXTENDS Naturals, Sequences, FiniteSets, SequencesExt

CONSTANTS Entries,     \* what an entry of "controls" may be
          MaxEntries,  \* bound on their number
          Category,    \* _CONTROL_TYPE_TO_CATEGORY: known types -> categories
          MaxControls, \* how many controls the prompt may show (400)
          None         \* no room, no parent, no filter

ASSUME MaxControlsAssumption == MaxControls \in Nat \ {0}
ASSUME MaxEntriesAssumption == MaxEntries \in Nat

(***************************************************************************)
(* An entry has a key, which is not None, and numbered names; an entry     *)
(* without sub-controls has none of them.                                  *)
(***************************************************************************)
IsEntry(e) ==
    /\ e.form \in {"good", "malformed", "broken", "unnested"}
    /\ e.uuid # None
    /\ e.name \in Nat
    /\ e.favorite \in BOOLEAN

ASSUME EntriesAssumption ==
    \A e \in Entries : /\ IsEntry(e)
                       /\ e.subs \in Seq(Range(e.subs))
                       /\ \A i \in DOMAIN e.subs : IsEntry(e.subs[i])

Categories == {Category[t] : t \in DOMAIN Category} \union {"other"}

ASSUME CategoryAssumption == None \notin Categories

VARIABLES
    file,      \* LoxAPP3.json on the Miniserver
    boot,      \* how far __main__._run has come
    todo,      \* the entries the loops of parse_structure_file have ahead of them
    controls,  \* StructureFile.controls: in the order of the dictionary
    prompt     \* the controls the system prompt shows

vars == <<file, boot, todo, controls, prompt>>

(***************************************************************************)
(* categorize: an unknown type is "other".                                 *)
(***************************************************************************)
Categorize(type) == IF type \in DOMAIN Category THEN Category[type] ELSE "other"

(***************************************************************************)
(* _parse_control returns a control for an entry with a name and a type;   *)
(* the constructor of Control refuses an empty uuid.                       *)
(***************************************************************************)
Parses(entry) == entry.form \in {"good", "unnested"} /\ entry.uuid # ""

(***************************************************************************)
(* What leaves the parser as another exception than _SkipControl, the only *)
(* one it catches: AttributeError, as an entry that is no object has no    *)
(* get, and subControls that are none no items (those of a sub-control are *)
(* not looked at); ValidationError for the empty uuid.                     *)
(***************************************************************************)
Raises(item) ==
    \/ item.entry.form = "broken"
    \/ item.entry.form \in {"good", "unnested"} /\ item.entry.uuid = ""
    \/ item.entry.form = "unnested" /\ item.parent = None

(***************************************************************************)
(* The control _parse_control makes of an entry. A sub-control has the     *)
(* room its own entry names, not its parent's.                             *)
(***************************************************************************)
Control(item) ==
    [uuid |-> item.entry.uuid, name |-> item.entry.name, room |-> item.entry.room,
     category |-> Categorize(item.entry.type), favorite |-> item.entry.favorite,
     parent |-> item.parent]

Items(entries, parent) == [i \in DOMAIN entries |-> [entry |-> entries[i], parent |-> parent]]

(***************************************************************************)
(* controls[c.uuid] = c: a uuid seen before keeps its place.               *)
(***************************************************************************)
PutAgain(cs, c) == Append(cs, c)   \* mutant: a list instead of a dictionary

PutFirst(cs, c) ==   \* mutant: the first control of a uuid stays
    IF \E i \in DOMAIN cs : cs[i].uuid = c.uuid THEN cs ELSE Append(cs, c)

Put(cs, c) ==
    IF \E i \in DOMAIN cs : cs[i].uuid = c.uuid
    THEN [i \in DOMAIN cs |-> IF cs[i].uuid = c.uuid THEN c ELSE cs[i]]
    ELSE Append(cs, c)

(***************************************************************************)
(* The controls the prompt shows: favourites first, then by name, as many  *)
(* as there is room for. The sort is stable.                               *)
(***************************************************************************)
BeforeByName(c, i, j) ==   \* mutant: only the name counts
    \/ c[i].name < c[j].name
    \/ c[i].name = c[j].name /\ i < j

Before(c, i, j) ==
    \/ c[i].favorite /\ ~ c[j].favorite
    \/ /\ c[i].favorite = c[j].favorite
       /\ \/ c[i].name < c[j].name
          \/ c[i].name = c[j].name /\ i < j

Shown(c) ==
    {c[i].uuid : i \in {j \in DOMAIN c :
                          Cardinality({k \in DOMAIN c : Before(c, k, j)}) < MaxControls}}

(***************************************************************************)
(* What list_controls returns for a room and a category, or None.          *)
(***************************************************************************)
Listed(room, category) ==
    {controls[i].uuid : i \in {j \in DOMAIN controls :
        /\ room # None => controls[j].room = room
        /\ category # None => controls[j].category = category}}

-------------------------------------------------------------------------------
Init ==
    /\ \E n \in 0 .. MaxEntries :
          file \in {f \in [1 .. n -> Entries] : IsInjective([i \in 1 .. n |-> f[i].uuid])}
    /\ boot = "fetching"
    /\ todo = << >>
    /\ controls = << >>
    /\ prompt = {}

(***************************************************************************)
(* fetch_structure_file; when it raises, the service does not start.       *)
(***************************************************************************)
Fetch ==
    /\ boot = "fetching"
    /\ \/ boot' = "parsing" /\ todo' = Items(file, None)
       \/ boot' = "unreachable" /\ UNCHANGED todo
    /\ UNCHANGED <<file, controls, prompt>>

(***************************************************************************)
(* A well-formed entry is kept, and its sub-controls come next. Their own  *)
(* sub-controls are not looked at.                                         *)
(***************************************************************************)
Keep ==
    /\ boot = "parsing"
    /\ todo # << >>
    /\ Parses(Head(todo).entry) /\ ~ Raises(Head(todo))
    /\ controls' = Put(controls, Control(Head(todo)))
    /\ todo' = (IF Head(todo).parent = None
                THEN Items(Head(todo).entry.subs, Head(todo).entry.uuid) ELSE << >>)
               \o Tail(todo)
    /\ UNCHANGED <<file, boot, prompt>>

SkipAlone ==   \* mutant: the sub-controls of a skipped control are kept
    /\ boot = "parsing"
    /\ todo # << >>
    /\ Head(todo).entry.form = "malformed"
    /\ todo' = Items(Head(todo).entry.subs, Head(todo).entry.uuid) \o Tail(todo)
    /\ UNCHANGED <<file, boot, controls, prompt>>

(***************************************************************************)
(* _SkipControl: a malformed entry is left out, with its sub-controls.     *)
(***************************************************************************)
Skip ==
    /\ boot = "parsing"
    /\ todo # << >>
    /\ Head(todo).entry.form = "malformed"
    /\ todo' = Tail(todo)
    /\ UNCHANGED <<file, boot, controls, prompt>>

BreakOnMalformed ==   \* mutant: _SkipControl is not caught around sub-controls
    /\ boot = "parsing"
    /\ todo # << >>
    /\ \/ Raises(Head(todo))
       \/ Head(todo).entry.form = "malformed" /\ Head(todo).parent # None
    /\ boot' = "crashed"
    /\ controls' = << >>
    /\ UNCHANGED <<file, todo, prompt>>

(***************************************************************************)
(* An exception that is not caught: the dictionary is lost with the call,  *)
(* and the service does not start.                                         *)
(***************************************************************************)
Break ==
    /\ boot = "parsing"
    /\ todo # << >>
    /\ Raises(Head(todo))
    /\ boot' = "crashed"
    /\ controls' = << >>
    /\ UNCHANGED <<file, todo, prompt>>

(***************************************************************************)
(* All entries are parsed; build_system_prompt runs once and for all.      *)
(***************************************************************************)
Render ==
    /\ boot = "parsing"
    /\ todo = << >>
    /\ boot' = "ready"
    /\ prompt' = Shown(controls)
    /\ UNCHANGED <<file, todo, controls>>

Next == Fetch \/ Keep \/ Skip \/ Break \/ Render

Spec == Init /\ [][Next]_vars

-------------------------------------------------------------------------------
(***************************************************************************)
(* The type invariant: a dictionary has each key once.                     *)
(***************************************************************************)
TypeOK ==
    /\ file \in Seq(Entries)
    /\ boot \in {"fetching", "parsing", "ready", "unreachable", "crashed"}
    /\ \A i, j \in DOMAIN controls : controls[i].uuid = controls[j].uuid => i = j
    /\ \A i \in DOMAIN controls : controls[i].category # None
    /\ prompt \subseteq {controls[i].uuid : i \in DOMAIN controls}

(***************************************************************************)
(* What the flattening should come to, said without a loop. A place is an  *)
(* entry of the file: <<i, 0>> the one at the top, <<i, j>> one below it.  *)
(* Kept are the well-formed ones at the top and below those.               *)
(***************************************************************************)
Places == UNION {{i} \X (0 .. Len(file[i].subs)) : i \in DOMAIN file}

At(p) == IF p[2] = 0 THEN [entry |-> file[p[1]], parent |-> None]
         ELSE [entry |-> file[p[1]].subs[p[2]], parent |-> file[p[1]].uuid]

Uuid(p) == At(p).entry.uuid

Kept == {p \in Places : Parses(file[p[1]]) /\ Parses(At(p).entry)}

Precedes(p, q) == p[1] < q[1] \/ (p[1] = q[1] /\ p[2] < q[2])

(***************************************************************************)
(* A dictionary built by assigning the entries of some places in turn: of  *)
(* those with the same uuid the last one counts, and the first one decides *)
(* about the order, in which the prompt shows equal names.                 *)
(***************************************************************************)
IsDictionaryOf(places) ==
    /\ \A p \in places : \E j \in DOMAIN controls : controls[j].uuid = Uuid(p)
    /\ \A j \in DOMAIN controls : \E p \in places :
          /\ controls[j] = Control(At(p))
          /\ \A q \in places : Uuid(q) = Uuid(p) => ~ Precedes(p, q)
    /\ \A i, j \in DOMAIN controls : i < j =>
          \E p \in places :
             /\ Uuid(p) = controls[i].uuid
             /\ \A q \in places : Uuid(q) = controls[j].uuid => Precedes(p, q)

(***************************************************************************)
(* parse_structure_file comes to that, in spite of skipped entries and of  *)
(* uuids that occur more than once.                                        *)
(***************************************************************************)
ParsedIsLastWellFormed == boot = "ready" => IsDictionaryOf(Kept)

(***************************************************************************)
(* Every parent_uuid refers to a control there is, at any time during the  *)
(* parse and although entries are skipped and replaced.                    *)
(***************************************************************************)
ParentsPresent ==
    \A i \in DOMAIN controls :
        controls[i].parent # None =>
            \E j \in DOMAIN controls : controls[j].uuid = controls[i].parent

(***************************************************************************)
(* Malformed entries never stop the service, and nothing below them does:  *)
(* the parser fails exactly when it looks at an entry it raises for. Those *)
(* are malformed controls too, to the reader of "we accept malformed       *)
(* individual controls by skipping them": one of them and the service does *)
(* not start.                                                              *)
(***************************************************************************)
LooksAt(p) == p[2] > 0 => Parses(file[p[1]])

Unparseable == \E p \in Places : LooksAt(p) /\ Raises(At(p))

FailsOnUncaughtOnly == /\ boot = "crashed" => Unparseable
                       /\ boot = "ready" => ~ Unparseable

(***************************************************************************)
(* "If we have to truncate, we include the most-favourited ... first": a   *)
(* favourite is omitted only from a prompt full of favourites, nothing is  *)
(* omitted while there is room, and what is omitted is what the prompt     *)
(* says of it: to be found by list_controls with a filter, under one       *)
(* category.                                                               *)
(***************************************************************************)
OmittedWithReason ==
    boot = "ready" =>
        \A i \in DOMAIN controls : controls[i].uuid \notin prompt =>
            /\ Cardinality(prompt) = MaxControls
            /\ controls[i].favorite =>
                  \A j \in DOMAIN controls : controls[j].uuid \in prompt => controls[j].favorite
            /\ Cardinality({k \in Categories : controls[i].uuid \in Listed(None, k)}) = 1
===============================================================================
