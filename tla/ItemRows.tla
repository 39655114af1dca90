------------------------------- MODULE ItemRows -------------------------------
(***************************************************************************)
(* The rows of the items table and what an operation makes of one          *)
(* (models/item.py, db/mixins.py, services/item_service.py).               *)
(***************************************************************************)
EXTENDS Naturals

CONSTANTS
    Users,
    Items,        \* primary keys
    Fields,       \* title, description
    Values,       \* their values (a null description is one of them)
    Blank,        \* the content of a row that does not exist
    AnyVersion,   \* If-Match: *
    MaxVersion,   \* bound of the model: the last version a client may name
    None

ASSUME ItemsAssumption == Items \subseteq Nat /\ MaxVersion \in Nat

Content == [Fields -> Values \cup {Blank}]
Patch == UNION {[S -> Values] : S \in SUBSET Fields}

Row == [owner : Users \cup {None}, content : Content, deleted : BOOLEAN,
        version : Nat]

NoRow == [owner |-> None, content |-> [f \in Fields |-> Blank],
          deleted |-> FALSE, version |-> 0]

Kinds == {"create", "read", "update", "delete", "close"}

\* What a client may send: a close names no item, only writes carry If-Match,
\* and only creates and updates carry fields.  A create comes with the key
\* that the sequence is going to deal it.
Op == {o \in [kind : Kinds, user : Users, item : Items \cup {None},
              expected : (0 .. MaxVersion) \cup {AnyVersion}, patch : Patch] :
          /\ o.item = None <=> o.kind = "close"
          /\ o.kind \notin {"update", "delete"} => o.expected = AnyVersion
          /\ o.kind = "create" => DOMAIN o.patch = Fields
          /\ o.kind \notin {"create", "update"} => DOMAIN o.patch = {}}

\* A row after a patch: the fields it names change, the others stay.
Patched(content, patch) ==
    [f \in Fields |-> IF f \in DOMAIN patch THEN patch[f] ELSE content[f]]

\* The row an operation leaves where it finds the given one.
After(row, op) ==
    [owner   |-> IF op.kind = "create" THEN op.user ELSE row.owner,
     content |-> IF op.kind \in {"create", "update"}
                 THEN Patched(row.content, op.patch) ELSE row.content,
     deleted |-> op.kind \in {"delete", "close"},
     version |-> row.version + 1]

Visible(row, user) == row.version > 0 /\ row.owner = user /\ ~row.deleted

ASSUME MarksAssumption ==
    /\ Blank \notin Values
    /\ AnyVersion \notin Nat
    /\ None \notin Users
    /\ None \notin Items
    /\ None \notin Op

=============================================================================
