---------------------------- MODULE ToolRegistry ----------------------------
(***************************************************************************)
(* The tools of a tenant: backend/app/services/tool_service.py.            *)
(*                                                                         *)
(* A tool is its name, whether it is active, and one secret header of its  *)
(* configuration.  A client is shown the header masked and sends the mask  *)
(* back with an edit of something else; the service then puts the stored   *)
(* header in its place.  An update is read, merged and committed in        *)
(* separate steps.  URLs, methods and the other tool types are left out.   *)
(***************************************************************************)
EXTENDS Naturals, FiniteSets

CONSTANTS
    Tools,      \* identities of tool_registry rows
    Names,      \* tool names
    Secrets,    \* values of the header
    Clients,    \* concurrent clients
    Mask,       \* "****"
    None        \* no row, no header, no change of name

Headers == Secrets \cup {Mask, None}
Rows == [name : Names, active : BOOLEAN, header : Headers]

ASSUME ToolsAssumption ==
    /\ Mask \notin Secrets \cup {None}
    /\ None \notin Secrets \cup Names /\ None \notin Rows

VARIABLES
    tool,       \* rows of tool_registry
    removed,    \* tools whose header somebody has removed
    client      \* where each client stands

toolVars == <<tool, removed, client>>

Idle == [at |-> "idle", id |-> None, shown |-> None, name |-> None, header |-> None,
         loaded |-> None]

ToolInit ==
    /\ tool = [t \in Tools |-> None]
    /\ removed = {}
    /\ client = [c \in Clients |-> Idle]

Exists(t) == tool[t] # None
Listed(t) == Exists(t) /\ tool[t].active

(* Another active row has the name: what create_tool and update_tool look  *)
(* for, and what the partial unique index refuses.                         *)
Taken(name, t) == \E u \in Tools \ {t} : Listed(u) /\ tool[u].name = name

To(c, next) == client' = [client EXCEPT ![c] = next]

(* create_tool has found the name free ...                                 *)
ChecksName(c, name, header) ==
    /\ client[c].at = "idle" /\ ~Taken(name, None)
    /\ To(c, [Idle EXCEPT !.at = "insert", !.name = name, !.header = header])
    /\ UNCHANGED <<tool, removed>>

(* ... and inserts: the index turns a second insertion into a 409.         *)
InsertsTool(c, t) ==
    /\ client[c].at = "insert" /\ ~Exists(t)
    /\ tool' = IF Taken(client[c].name, t) THEN tool
               ELSE [tool EXCEPT ![t] = [name |-> client[c].name, active |-> TRUE,
                                         header |-> client[c].header]]
    /\ To(c, Idle)
    /\ UNCHANGED removed

(* GET: the client is shown the header masked.                             *)
Shows(c, t) ==
    /\ client[c].at = "idle" /\ Listed(t)
    /\ To(c, [Idle EXCEPT !.at = "shown", !.id = t,
                          !.shown = IF tool[t].header = None THEN None ELSE Mask])
    /\ UNCHANGED <<tool, removed>>

(* The edit the client sends: a new name or none, and the header as it was *)
(* shown, another one, or none.  The service reads the row and checks the  *)
(* name.                                                                   *)
Loads(c, name, header) ==
    /\ client[c].at = "shown" /\ header \in Secrets \cup {client[c].shown, None}
    /\ LET t == client[c].id IN
       /\ Listed(t)
       /\ name # None => ~Taken(name, t)
       /\ To(c, [client[c] EXCEPT !.at = "merge", !.name = name, !.header = header,
                                  !.loaded = tool[t]])
    /\ UNCHANGED <<tool, removed>>

\* Mutant: what the client sends is stored as it is.
MergedVerbatim(c) == client[c].header

(* _merge_api_config: a mask stands for the stored header, if there is one.*)
Merged(c) ==
    IF client[c].header = Mask /\ client[c].loaded.header # None
    THEN client[c].loaded.header ELSE client[c].header

(* The commit writes the attributes that changed since they were read: the *)
(* name of a row deleted meanwhile is not in the index.                    *)
Saves(c) ==
    /\ client[c].at = "merge"
    /\ LET t == client[c].id
           read == client[c].loaded
           name == IF client[c].name \in {None, read.name} THEN tool[t].name ELSE client[c].name
           header == IF Merged(c) = read.header THEN tool[t].header ELSE Merged(c)
           refused == tool[t].active /\ name # tool[t].name /\ Taken(name, t)
       IN  /\ tool' = IF refused THEN tool
                      ELSE [tool EXCEPT ![t].name = name, ![t].header = header]
           /\ removed' = IF ~refused /\ header = None /\ tool[t].header # None
                         THEN removed \cup {t} ELSE removed
    /\ To(c, Idle)

(* delete_tool: the row stays, inactive, and its name is free.             *)
Deletes(t) ==
    /\ Listed(t)
    /\ tool' = [tool EXCEPT ![t].active = FALSE]
    /\ UNCHANGED <<removed, client>>

Leaves(c) ==
    /\ client[c].at # "idle"
    /\ To(c, Idle)
    /\ UNCHANGED <<tool, removed>>

ToolNext ==
    \/ \E t \in Tools : Deletes(t)
    \/ \E c \in Clients :
          \/ \E name \in Names, h \in Secrets \cup {None} : ChecksName(c, name, h)
          \/ \E name \in Names \cup {None}, h \in Headers : Loads(c, name, h)
          \/ \E t \in Tools : InsertsTool(c, t) \/ Shows(c, t)
          \/ Saves(c) \/ Leaves(c)

ToolSpec == ToolInit /\ [][ToolNext]_toolVars

----------------------------------------------------------------------------
ToolTypeOK ==
    /\ tool \in [Tools -> Rows \cup {None}]
    /\ removed \subseteq Tools
    /\ client \in [Clients ->
          [at : {"idle", "insert", "shown", "merge"}, id : Tools \cup {None},
           shown : {Mask, None}, name : Names \cup {None}, header : Headers,
           loaded : Rows \cup {None}]]

(* The mask takes the place of a header only after somebody has removed    *)
(* the header while another client was shown it: as long as nobody does,   *)
(* no sequence of edits loses the secret to its mask.                      *)
MaskNeedsRemoval == \A t \in Tools : Exists(t) /\ tool[t].header = Mask => t \in removed
=============================================================================
