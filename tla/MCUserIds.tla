----------------------------- MODULE MCUserIds -----------------------------
(***************************************************************************)
(* UserIds with three User IDs, a User Attribute, and the kinds of         *)
(* signatures that the order tells apart.                                  *)
(***************************************************************************)
EXTENDS UserIds

CONSTANTS u1, u2, u3, photo,
          selfPrimary, selfLocal, other

AllUids == {u1, u2, u3, photo}
MCAttribute == {photo}
MCKind == {selfPrimary, selfLocal, other}
MCSelfKind == {selfPrimary, selfLocal}
MCPrimaryKind == {selfPrimary}
MCLocalKind == {selfLocal}
=============================================================================
