------------------------------ MODULE Registry ----------------------------
(***************************************************************************)
(* Resources, actions and the matrix of permissions between them.          *)
(*                                                                         *)
(* A process registers the resources of its controllers when it boots:     *)
(* it inserts what is missing, completes the matrix and marks as orphaned  *)
(* what it does not know.  Several processes, of one release or of two,    *)
(* boot at any time, while administrators create and delete actions and    *)
(* restore orphans.  A boot that meets a unique constraint gives up, and   *)
(* the process serves on with an empty registry.                           *)
(***************************************************************************)
EXTENDS Naturals, FiniteSets, Sequences, Functions

CONSTANTS
    Processes, Releases,
    Registered,     \* the controllers of a release, in the order discovered
    FirstRelease,   \* what every process runs at first
    Defaults,       \* default actions, never deleted
    Custom,         \* actions administrators create, each once
    MaxBoots,       \* bound on the boots
    MaxAssigned,    \* bound on the permissions roles hold at a time
    Absent

Actions == Defaults \cup Custom
Finding == {Absent} \cup [there : BOOLEAN, orphan : BOOLEAN] \cup SUBSET Actions

(* A boot: the actions it has read, the controllers still to sync, what it *)
(* has found of the one in hand, and the orphans still to mark.            *)
BootType ==
    [actions : SUBSET Actions, todo : Seq(STRING),
     at : {"find", "upsert", "permissions", "insert", "orphan"},
     found : Finding, orphans : SUBSET STRING]

ASSUME RegistryAssumption ==
    /\ Processes # {} /\ "lookup" \notin Processes
    /\ Registered \in [Releases -> Seq(STRING)] /\ FirstRelease \in Releases
    /\ Defaults \cap Custom = {} /\ MaxBoots \in Nat /\ MaxAssigned \in Nat
    /\ Absent \notin BootType /\ Absent \notin [active : SUBSET STRING, orphaned : SUBSET STRING]

VARIABLES
    rows,           \* table resources, by name
    orphaned,       \* those marked isOrphaned
    actions,        \* table actions
    permissions,    \* table permissions: <<resource, action>>
    assigned,       \* the permissions some role holds
    process,        \* release, registry and boot of each process
    creation,       \* the creation of an action under way, or Absent
    deletion,       \* the deletion of an action under way, or Absent
    subjectMap,     \* rbac:subject_map in the cache, or Absent
    read,           \* a lookup of it that missed: what it read, or Absent
    boots, created, \* ghost: boots so far, actions created so far
    crossed         \* ghost: lookups and boots that a write crossed

registryVars == <<rows, orphaned, actions, permissions, assigned, process, creation,
                  deletion, subjectMap, read, boots, created, crossed>>

registryTables == <<rows, orphaned, actions, permissions, assigned>>
mapping == <<subjectMap, read>>
editing == <<creation, deletion, created>>

-----------------------------------------------------------------------------
SubjectMaps == [active |-> rows \ orphaned, orphaned |-> orphaned]
Names(rel) == Range(Registered[rel])

Boot(rel) ==
    [actions |-> actions, todo |-> Registered[rel], at |-> "find",
     found |-> Absent, orphans |-> {}]
Booted == Absent

RegistryInit ==
    /\ rows = Names(FirstRelease) /\ orphaned = {}
    /\ actions = Defaults
    /\ permissions = rows \X actions /\ assigned = {}
    /\ process = [i \in Processes |->
         [release |-> FirstRelease, registry |-> Names(FirstRelease), boot |-> Booted]]
    /\ creation = Absent /\ deletion = Absent
    /\ subjectMap = Absent /\ read = Absent
    /\ boots = 0 /\ created = {}
    /\ crossed = {}

Booting == {i \in Processes : process[i].boot # Absent}
At(i, step) == i \in Booting /\ process[i].boot.at = step
ThisResource(i) == Head(process[i].boot.todo)
Goes(i, boot) == process' = [process EXCEPT ![i].boot = boot]

(* The sync of process i, or a lookup, has met a write of somebody else.   *)
Cross(others) == crossed' = crossed \cup others
Reader == IF read = Absent THEN {} ELSE {"lookup"}

(* A process comes up, of the same release or of another one.              *)
StartProcess(i, rel) ==
    /\ boots < MaxBoots /\ i \notin Booting
    /\ process' = [process EXCEPT ![i] =
         [release |-> rel, registry |-> {}, boot |-> Boot(rel)]]
    /\ boots' = boots + 1
    /\ crossed' = (crossed \ {i}) \cup
         (IF creation = Absent /\ deletion = Absent THEN {} ELSE {i})
    /\ UNCHANGED <<registryTables, editing, mapping>>

(* onApplicationBootstrap swallows the error.                              *)
GiveUp(i) ==
    /\ Goes(i, Booted)
    /\ Cross({i})
    /\ UNCHANGED <<registryTables, editing, mapping, boots>>

FindResource(i) ==
    LET boot == process[i].boot
        r == ThisResource(i)
    IN  /\ At(i, "find") /\ boot.todo # <<>>
        /\ Goes(i, [boot EXCEPT !.at = "upsert",
                                !.found = [there |-> r \in rows,
                                           orphan |-> r \in orphaned]])
        /\ UNCHANGED <<registryTables, editing, mapping, boots, crossed>>

(* The whole row is saved, isOrphaned as it was found.                     *)
UpsertResource(i) ==
    LET boot == process[i].boot
        r == ThisResource(i)
    IN  /\ At(i, "upsert")
        /\ IF ~boot.found.there /\ r \in rows THEN GiveUp(i)
           ELSE /\ rows' = rows \cup {r}
                /\ orphaned' = IF boot.found.orphan THEN orphaned \cup {r}
                               ELSE orphaned \ {r}
                /\ Goes(i, [boot EXCEPT !.at = "permissions", !.found = Absent])
                /\ Cross(Reader)
                /\ UNCHANGED <<actions, permissions, assigned, editing, mapping, boots>>

NewOnly(boot, there, r) ==                      \* a mutant
    IF there # {} THEN {} ELSE boot.actions
Missing(boot, there, r) == boot.actions \ there

FindPermissions(i) ==
    LET boot == process[i].boot
        r == ThisResource(i)
        there == {a \in actions : <<r, a>> \in permissions}
    IN  /\ At(i, "permissions")
        /\ Goes(i, [boot EXCEPT !.at = "insert", !.found = Missing(boot, there, r)])
        /\ UNCHANGED <<registryTables, editing, mapping, boots, crossed>>

(* One save for all of them: a pair inserted in the meantime, or an action *)
(* deleted, fails it.                                                      *)
InsertPermissions(i) ==
    LET boot == process[i].boot
        new == {ThisResource(i)} \X boot.found
    IN  /\ At(i, "insert")
        /\ IF new \cap permissions # {} \/ ~(boot.found \subseteq actions) THEN GiveUp(i)
           ELSE /\ permissions' = permissions \cup new
                /\ Goes(i, [boot EXCEPT !.at = "find", !.todo = Tail(@), !.found = Absent])
                /\ UNCHANGED <<rows, orphaned, actions, assigned, editing, mapping,
                               boots, crossed>>

Unregistered(i) == (rows \ orphaned) \ Names(process[i].release)

ListOrphans(i) ==
    LET boot == process[i].boot
    IN  /\ At(i, "find") /\ boot.todo = <<>>
        /\ Goes(i, [boot EXCEPT !.at = "orphan", !.orphans = Unregistered(i)])
        /\ UNCHANGED <<registryTables, editing, mapping, boots, crossed>>

MarkOrphan(i, r) ==
    LET boot == process[i].boot
    IN  /\ At(i, "orphan") /\ r \in boot.orphans
        /\ orphaned' = orphaned \cup {r}
        /\ Goes(i, [boot EXCEPT !.orphans = @ \ {r}])
        /\ Cross(Reader)
        /\ UNCHANGED <<rows, actions, permissions, assigned, editing, mapping, boots>>

DroppedMap == Absent

FinishSync(i) ==
    /\ At(i, "orphan") /\ process[i].boot.orphans = {}
    /\ process' = [process EXCEPT ![i].boot = Booted,
                                  ![i].registry = Names(process[i].release)]
    /\ subjectMap' = DroppedMap
    /\ UNCHANGED <<registryTables, editing, read, boots, crossed>>

-----------------------------------------------------------------------------
(* POST resources/:id/restore on process i.                                *)
RestoreResource(i, r) ==
    /\ r \in orphaned /\ r \in process[i].registry
    /\ orphaned' = orphaned \ {r}
    /\ subjectMap' = DroppedMap
    /\ Cross(Reader)
    /\ UNCHANGED <<rows, actions, permissions, assigned, process, editing, read, boots>>

(* POST actions: the action, then the resources, then one save of its row  *)
(* of the matrix.                                                          *)
CreateAction(a) ==
    /\ creation = Absent /\ a \in Custom \ created
    /\ actions' = actions \cup {a} /\ created' = created \cup {a}
    /\ creation' = [action |-> a, resources |-> Absent]
    /\ Cross(Booting)
    /\ UNCHANGED <<rows, orphaned, permissions, assigned, process, deletion, mapping,
                   boots>>

ReadResources ==
    /\ creation # Absent /\ creation.resources = Absent
    /\ creation' = [creation EXCEPT !.resources = rows]
    /\ UNCHANGED <<registryTables, process, deletion, created, mapping, boots, crossed>>

CreatePermissions ==
    LET new == creation.resources \X {creation.action}
    IN  /\ creation # Absent /\ creation.resources # Absent
        /\ permissions' =
             IF new \cap permissions # {} \/ creation.action \notin actions
             THEN permissions ELSE permissions \cup new
        /\ creation' = Absent
        /\ UNCHANGED <<rows, orphaned, actions, assigned, process, deletion, created,
                       mapping, boots, crossed>>

(* DELETE actions/:id: no role may hold it, then its permissions go, and   *)
(* with them what was assigned since; last the action, unless a boot has   *)
(* given it permissions anew.                                              *)
DeleteAction(a) ==
    /\ deletion = Absent /\ a \in actions \cap Custom
    /\ \A p \in assigned : p[2] # a
    /\ deletion' = [action |-> a, emptied |-> FALSE]
    /\ Cross(Booting)
    /\ UNCHANGED <<registryTables, process, creation, created, mapping, boots>>

DeletePermissions ==
    /\ deletion # Absent /\ ~deletion.emptied
    /\ permissions' = {p \in permissions : p[2] # deletion.action}
    /\ assigned' = {p \in assigned : p[2] # deletion.action}
    /\ deletion' = [deletion EXCEPT !.emptied = TRUE]
    /\ UNCHANGED <<rows, orphaned, actions, process, creation, created, mapping, boots,
                   crossed>>

RemoveAction ==
    /\ deletion # Absent /\ deletion.emptied
    /\ actions' = IF \E p \in permissions : p[2] = deletion.action THEN actions
                  ELSE actions \ {deletion.action}
    /\ deletion' = Absent
    /\ UNCHANGED <<rows, orphaned, permissions, assigned, process, creation, created,
                   mapping, boots, crossed>>

(* The permission of a custom action is given to a role, or taken back.    *)
Assign(p) ==
    /\ p \in permissions /\ p[2] \in Custom
    /\ p \in assigned \/ Cardinality(assigned) < MaxAssigned
    /\ assigned' = IF p \in assigned THEN assigned \ {p} ELSE assigned \cup {p}
    /\ UNCHANGED <<rows, orphaned, actions, permissions, process, editing, mapping, boots,
                   crossed>>

-----------------------------------------------------------------------------
(* getSubjectMaps on a miss: the table is read, and stored later.          *)
ReadMap ==
    /\ subjectMap = Absent /\ read = Absent
    /\ read' = SubjectMaps
    /\ UNCHANGED <<registryTables, process, editing, subjectMap, boots, crossed>>

StoreMap ==
    /\ read # Absent
    /\ subjectMap' = read
    /\ read' = Absent
    /\ UNCHANGED <<registryTables, process, editing, boots, crossed>>

ExpireMap ==
    /\ subjectMap # Absent
    /\ subjectMap' = Absent
    /\ crossed' = IF read = Absent THEN crossed \ {"lookup"} ELSE crossed
    /\ UNCHANGED <<registryTables, process, editing, read, boots>>

RegistryNext ==
    \/ \E i \in Processes :
         \/ \E rel \in Releases : StartProcess(i, rel)
         \/ FindResource(i) \/ UpsertResource(i)
         \/ FindPermissions(i) \/ InsertPermissions(i)
         \/ ListOrphans(i) \/ FinishSync(i)
         \/ \E r \in rows : MarkOrphan(i, r) \/ RestoreResource(i, r)
    \/ \E a \in Custom : CreateAction(a) \/ DeleteAction(a)
    \/ ReadResources \/ CreatePermissions \/ DeletePermissions \/ RemoveAction
    \/ \E p \in permissions : Assign(p)
    \/ ReadMap \/ StoreMap \/ ExpireMap

RegistrySpec == RegistryInit /\ [][RegistryNext]_registryVars

-----------------------------------------------------------------------------
(* A boot that no creation or deletion of an action crossed leaves a       *)
(* permission for every action on every resource it registers, also where  *)
(* an earlier creation had failed half way: syncResources repairs.         *)
SyncCompletesMatrix ==
    [][\A i \in Processes :
         process[i].registry = {} /\ process'[i].registry # {} /\ i \notin crossed =>
           process'[i].registry \X actions' \subseteq permissions']_registryVars

(* When every process is up and none gave up, a resource is active only    *)
(* if some process has its controller: orphans are not granted on.         *)
ActiveHasController ==
    Booting = {} /\ (\A i \in Processes : process[i].registry # {}) =>
      rows \ orphaned \subseteq UNION {process[i].registry : i \in Processes}

(* With no boot under way the cached map is the table's, unless a lookup   *)
(* or a boot that gave up crossed a write of it: whoever writes the table  *)
(* drops the map.                                                          *)
SettledMapIsCurrent ==
    Booting = {} /\ crossed = {} => subjectMap \in {Absent, SubjectMaps}

(* All three; the boot of ResourceSyncService, resource.service.ts and     *)
(* action.service.ts are what could break any.                             *)
RegistryIsSound ==
    SyncCompletesMatrix /\ [](ActiveHasController /\ SettledMapIsCurrent)
=============================================================================
