----------------------------- MODULE BackOffice -----------------------------
(***************************************************************************)
(* The two services of the backend that change a user's data beside the    *)
(* chats: administration and memory.  They share the database and nothing  *)
(* of each other's, so one of them works at a time here: `desk` says which *)
(* (it stands for no code).                                                *)
(***************************************************************************)
EXTENDS AdminAccess, MemoryNotes

VARIABLE desk  \* "admin" or "memory"

officeVars == <<adminVars, notesVars, desk>>

OfficeInit == AdminInit /\ NotesInit /\ desk \in {"admin", "memory"}
AdminDesk(r) == desk = "admin" /\ AdminStep(r) /\ UNCHANGED <<notesVars, desk>>
MemoryDesk(j) == desk = "memory" /\ JobStep(j) /\ UNCHANGED <<adminVars, desk>>
UserDesk == /\ desk = "memory"
            /\ EraseOne \/ EraseAll
            /\ UNCHANGED <<adminVars, desk>>

OfficeNext == \/ \E r \in Requests : AdminDesk(r)
              \/ \E j \in Jobs : MemoryDesk(j)
              \/ UserDesk
OfficeSpec == OfficeInit /\ [][OfficeNext]_officeVars

OfficeTypeOK == AdminTypeOK /\ NotesTypeOK
=============================================================================
