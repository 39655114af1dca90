----------------------------- MODULE MCUnitOfWork -----------------------------
(* A small instance of UnitOfWork: a role, one of its members, and a token. *)
EXTENDS UnitOfWork

CONSTANTS role, token, member

MCRows == {role, token}
MCLinks == {member}
MCOwner == [l \in MCLinks |-> role]

=============================================================================
