--------------------------- MODULE DocumentAccess ---------------------------
(***************************************************************************)
(* Who may do what to which document: DocumentAccessGuard at the door of   *)
(* the controllers, DocumentAccessPolicy behind it, and what the handlers  *)
(* of DocumentsController and DocumentPlacementsController ask of it.      *)
(* A document belongs to the groups of the sections it is placed in, so a  *)
(* right is a relation between an administrator and a set of sections, and *)
(* placing a document elsewhere changes who may edit it.                   *)
(***************************************************************************)
CONSTANTS
    Sections, \* DOCUMENT_SECTIONS
    Groups,   \* DocumentGroup
    GroupOf,  \* the group of a section
    Actors    \* the administrators

Modes == {"NONE", "ALL", "SELECTED_GROUPS"}
DocumentActor == [super : BOOLEAN, mode : Modes, groups : SUBSET Groups]

ASSUME GroupAssumption == GroupOf \in [Sections -> Groups]
ASSUME ActorsAssumption == Actors # {} /\ Actors \subseteq DocumentActor

Group(s) == GroupOf[s]

(* DocumentAccessGuard *)
Admitted(a) ==
    \/ a.super
    \/ a.mode = "ALL"
    \/ a.mode = "SELECTED_GROUPS" /\ a.groups # {}

(* DocumentAccessPolicy *)
CanAccess(a, s) ==
    \/ a.super
    \/ a.mode = "ALL"
    \/ a.mode = "SELECTED_GROUPS" /\ Group(s) \in a.groups

Accessible(a) == {s \in Sections : CanAccess(a, s)}

\* A document of mixed scope is read-only; so is one without a placement.
CanManage(a, placements) == placements # {} /\ placements \subseteq Accessible(a)

-----------------------------------------------------------------------------
(* The handlers: guard and policy together.                                *)

MayCreate(a, keys) == Admitted(a) /\ keys \subseteq Accessible(a)

\* The scope of the document as it is does not matter: a restricted
\* administrator may place any document in sections of the own groups.
MayReplace(a, keys) == Admitted(a) /\ keys \subseteq Accessible(a)

MayReorder(a, s) == Admitted(a) /\ CanAccess(a, s)

\* Mutation of MayUpdate: a right to one placement is enough.
MayUpdate_AnyPlacement(a, placements) ==
    Admitted(a) /\ placements \cap Accessible(a) # {}

MayUpdate(a, placements) == Admitted(a) /\ CanManage(a, placements)

MayDelete(a, placements) == Admitted(a) /\ a.super /\ CanManage(a, placements)
=============================================================================
