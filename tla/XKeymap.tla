------------------------------- MODULE XKeymap -------------------------------
(***************************************************************************)
(* set_keymap and find_modifiers (plugins/xorg/xorg.c): the table of        *)
(* keysyms sent to the server, and the table of modifiers found by pressing *)
(* each key in turn.  xkbcommon and the server are external.                *)
(***************************************************************************)
EXTENDS Integers, Sequences, FiniteSets

CONSTANTS
    MapMin, MapMax,         \* the keycodes of the keymap
    ServerMin, ServerMax,   \* the keycodes of the server
    Modifiers,              \* the number of modifiers, 8 in the code
    MaxCells,               \* MAX_KEYCODE, the length of the arrays of find_modifiers
    Keysyms,                \* the keysyms a key may have: a sequence with one set per level
    Actions                 \* what a key may do: [kind, mods]

Modifier == 1..Modifiers

ASSUME KeymapAssumption ==
    /\ {MapMin, MapMax, ServerMin, ServerMax, Modifiers, MaxCells} \subseteq Nat
    /\ ServerMin > 0
    /\ \A s \in Keysyms : Len(s) \in Nat
    /\ \A a \in Actions : /\ a.kind \in {"plain", "set", "latch", "lock"} /\ a.mods \subseteq Modifier
                          /\ a.kind = "plain" => a.mods = {}

VARIABLES
    keys,       \* the keymap: each key's action and keysyms
    code,       \* the key of the loop
    width,      \* the most levels of a key
    mapping,    \* the keysyms sent to the server: position |-> keysym
    base, xkb,  \* the xkb state before the key was pressed, and now: modifiers
                \* depressed, latched and locked
    mod,        \* the modifier of the loop
    heads,      \* modifier_keycode_head, 0 for none
    counts,     \* modifier_keycode_count
    cells,      \* keycodes and next_keycode_indices: [code, next], with the modifier
                \* whose list the cell is in
    per,        \* keycode_per_modifiers
    rows,       \* the modifier mapping
    curr, cnt,  \* the loop over a list
    sent,       \* the modifier mapping the server has
    phase       \* "measure", "press", "link", "count", "fill"; then "done" or "failed"

keymapVars ==
    <<keys, code, width, mapping, base, xkb, mod, heads, counts, cells, per, rows, curr, cnt, sent, phase>>

NoKey == 0
Released == [depressed |-> {}, latched |-> {}, locked |-> {}]

\* Within the limits of the server
MinCode == IF MapMin < ServerMin THEN ServerMin ELSE MapMin
MaxCode == IF MapMax > ServerMax THEN ServerMax ELSE MapMax
Codes == MinCode..MaxCode

KeymapStart ==
    /\ code = MinCode /\ width = 0 /\ mapping = <<>>
    /\ base = Released /\ xkb = Released /\ mod = 1
    /\ heads = [m \in Modifier |-> 0] /\ counts = [m \in Modifier |-> 0] /\ cells = <<>>
    /\ per = 0 /\ rows = <<>> /\ curr = 0 /\ cnt = 0 /\ sent = <<>>
    /\ phase = "measure"

KeymapInit == keys \in [Codes -> [does : Actions, syms : Keysyms]] /\ KeymapStart

Larger(a, b) == IF a > b THEN a ELSE b
----------------------------------------------------------------------------
(* The keysyms *)

Level(k) == Len(keys[k].syms)

MeasureKey ==
    /\ phase = "measure" /\ code <= MaxCode
    /\ width' = Larger(Level(code), width) /\ code' = code + 1
    /\ UNCHANGED <<keys, mapping, base, xkb, mod, heads, counts, cells, per, rows, curr, cnt, sent, phase>>

\* keysym_per_keycode: the first two levels are in both groups
PerKeycode == width + 2

\* A level with several keysyms, or with none, leaves its cell empty.
Cell(k, column) ==
    LET level == IF column <= 2 THEN column ELSE column - 2 IN
    IF level <= Level(k) /\ Cardinality(keys[k].syms[level]) = 1
    THEN keys[k].syms[level] ELSE {}

\* The names in the object give a keymap with one layout. Without a layout, or with
\* several, set_keymap has returned; for names that xkbcommon does not know it asks
\* a NULL keymap for its layouts.
SendKeysyms ==
    /\ phase = "measure" /\ code > MaxCode
    /\ mapping' = [i \in 1..(PerKeycode * (MaxCode - MinCode + 1)) |->
                      Cell(MinCode + ((i - 1) \div PerKeycode), ((i - 1) % PerKeycode) + 1)]
    /\ phase' = "press" /\ code' = MinCode
    /\ UNCHANGED <<keys, width, base, xkb, mod, heads, counts, cells, per, rows, curr, cnt, sent>>

----------------------------------------------------------------------------
(* The modifiers *)

\* xkb_state_update_key: a plain key breaks a latch
Down(s, k) ==
    LET does == keys[k].does IN
    CASE does.kind = "plain" -> [s EXCEPT !.latched = {}]
      [] does.kind \in {"set", "latch"} -> [s EXCEPT !.depressed = @ \cup does.mods]
      [] does.kind = "lock" -> [s EXCEPT !.depressed = @ \cup does.mods, !.locked = @ \cup does.mods]

\* before is the state in which the key was pressed
Up(s, k, before) ==
    LET does == keys[k].does
        t == [s EXCEPT !.depressed = {}] IN
    CASE does.kind = "latch" -> [t EXCEPT !.latched = @ \cup does.mods]
      [] does.kind = "lock" -> [t EXCEPT !.locked = @ \ (before.locked \cap does.mods)]
      [] OTHER -> t

Typed(s, k) == Up(Down(s, k), k, s)
Changed(s, t) == {c \in {"depressed", "latched", "locked"} : s[c] # t[c]}

PressKey ==
    /\ phase = "press" /\ code <= MaxCode
    /\ base' = xkb /\ xkb' = Down(xkb, code)
    /\ mod' = 1 /\ phase' = "link"
    /\ UNCHANGED <<keys, code, width, mapping, heads, counts, cells, per, rows, curr, cnt, sent>>

\* xkb_state_mod_name_is_active, in the components that changed
Active == \E c \in Changed(base, xkb) : mod \in xkb[c]

\* A key that activates a modifier becomes the head of its list.  The arrays are
\* not checked for their end.
LinkModifier ==
    /\ phase = "link" /\ mod <= Modifiers
    /\ IF ~Active THEN mod' = mod + 1 /\ UNCHANGED <<cells, heads, counts, phase>>
       ELSE IF Len(cells) = MaxCells THEN phase' = "overrun" /\ UNCHANGED <<cells, heads, counts, mod>>
       ELSE /\ cells' = Append(cells, [code |-> code, next |-> heads[mod], mod |-> mod])
            /\ heads' = [heads EXCEPT ![mod] = Len(cells) + 1]
            /\ counts' = [counts EXCEPT ![mod] = @ + 1]
            /\ mod' = mod + 1 /\ UNCHANGED phase
    /\ UNCHANGED <<keys, code, width, mapping, base, xkb, per, rows, curr, cnt, sent>>

\* Mutant: a lock is not undone.
SettleKeepsLock(s, k, updates) == IF "latched" \in updates THEN Released ELSE Typed(s, k)

\* What remains of the key in the state of the next one: a lock is undone by a
\* second press, a latch by a new state.
Settle(s, k, updates) ==
    LET t == IF "locked" \in updates THEN Typed(Typed(s, k), k) ELSE Typed(s, k) IN
    IF "latched" \in updates THEN Released ELSE t

ReleaseKey ==
    /\ phase = "link" /\ mod > Modifiers
    /\ xkb' = Settle(base, code, Changed(base, xkb))
    /\ code' = code + 1 /\ phase' = "press"
    /\ UNCHANGED <<keys, width, mapping, base, mod, heads, counts, cells, per, rows, curr, cnt, sent>>

\* The last key was tried.
AllPressed ==
    /\ phase = "press" /\ code > MaxCode
    /\ mod' = 1 /\ phase' = "count"
    /\ UNCHANGED <<keys, code, width, mapping, base, xkb, heads, counts, cells, per, rows, curr, cnt, sent>>

CountModifier ==
    /\ phase = "count" /\ mod <= Modifiers
    /\ per' = Larger(counts[mod], per) /\ mod' = mod + 1
    /\ UNCHANGED <<keys, code, width, mapping, base, xkb, heads, counts, cells, rows, curr, cnt, sent, phase>>

\* The list of modifier m is next; there may be no such modifier.
ListFrom(m) == mod' = m /\ cnt' = 0 /\ curr' = IF m <= Modifiers THEN heads[m] ELSE 0

NewRows ==
    /\ phase = "count" /\ mod > Modifiers
    /\ rows' = [m \in Modifier |-> [i \in 1..per |-> NoKey]]
    /\ ListFrom(1) /\ phase' = "fill"
    /\ UNCHANGED <<keys, code, width, mapping, base, xkb, heads, counts, cells, per, sent>>

FillRow ==
    /\ phase = "fill" /\ mod <= Modifiers
    /\ IF curr = 0 THEN ListFrom(mod + 1) /\ UNCHANGED rows
       ELSE /\ rows' = [rows EXCEPT ![mod][cnt + 1] = cells[curr].code]
            /\ curr' = cells[curr].next /\ cnt' = cnt + 1 /\ UNCHANGED mod
    /\ UNCHANGED <<keys, code, width, mapping, base, xkb, heads, counts, cells, per, sent, phase>>

\* The request is repeated while a modifier key is held down.
SetModifiers(status) ==
    /\ phase = "fill" /\ mod > Modifiers
    /\ sent' = IF status = "success" THEN rows ELSE sent
    /\ phase' = CASE status = "success" -> "done" [] status = "failure" -> "failed"
                  [] status = "busy" -> phase
    /\ UNCHANGED <<keys, code, width, mapping, base, xkb, mod, heads, counts, cells, per, rows, curr, cnt>>

KeymapNext ==
    \/ MeasureKey \/ SendKeysyms \/ PressKey \/ LinkModifier \/ ReleaseKey \/ AllPressed
    \/ CountModifier \/ NewRows \/ FillRow
    \/ \E status \in {"success", "failure", "busy"} : SetModifiers(status)

KeymapSpec == KeymapInit /\ [][KeymapNext]_keymapVars
----------------------------------------------------------------------------
\* The row of a modifier that the server gets has every key of its range that
\* acts on the modifier, once, and no other key, whatever locks and latches the
\* keys that were pressed before it left behind (xorg.c:288, 309, 313).
ModifiersExact ==
    phase = "done" => \A m \in Modifier :
        /\ {sent[m][i] : i \in DOMAIN sent[m]} \ {NoKey} = {k \in Codes : m \in keys[k].does.mods}
        /\ \A i, j \in DOMAIN sent[m] : sent[m][i] = sent[m][j] => i = j \/ sent[m][i] = NoKey

\* The rows of the modifier mapping are of one length, which is the least: one
\* of them is full.  No list is longer (the assertion of xorg.c:338).
RowsFit ==
    /\ phase = "fill" /\ curr # 0 => cnt < per
    /\ phase = "done" => /\ \A m \in Modifier : DOMAIN sent[m] = 1..per
                         /\ per > 0 => \E m \in Modifier : sent[m][per] # NoKey

\* In the table that the server cuts into rows of keysym_per_keycode, a key
\* has its first two levels in both groups and its other levels after them,
\* and no cell holds a keysym of another key.
KeysymsPlaced ==
    phase # "measure" => \A k \in Codes : \A l \in 1..Level(k) :
        LET row == (k - MinCode) * PerKeycode
            sym == IF Cardinality(keys[k].syms[l]) = 1 THEN keys[k].syms[l] ELSE {} IN
        /\ row + l + 2 \in DOMAIN mapping /\ mapping[row + l + 2] = sym
        /\ l <= 2 => mapping[row + l] = sym

\* A key that was tried leaves no modifier depressed or locked for the next one.
LocksUndone == phase = "press" => xkb.depressed = {} /\ xkb.locked = {}

\* The two tables that set_keymap sends say what the keymap says, although the
\* modifiers are found by pressing keys that change what the next ones do.
KeymapExact == LocksUndone /\ ModifiersExact /\ RowsFit /\ KeysymsPlaced
=============================================================================
