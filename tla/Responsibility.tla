--------------------------- MODULE Responsibility ---------------------------
(***************************************************************************)
(* HostedZone objects as the API server keeps them, and the decisions that *)
(* every controller takes on them: the walk to the root zone, the          *)
(* responsibility check, the change of responsibility and the validation   *)
(* (internal/controller/common and direct/hostedzone/validation.go).       *)
(*                                                                         *)
(* All zones live in one API namespace, as parent references do.           *)
(***************************************************************************)
EXTENDS Naturals, FiniteSets

CONSTANTS
    Zones,          \* names of HostedZone objects
    NoZone,         \* the empty parent reference
    Absent,         \* no object of this name in the API server
    nil,            \* an attribute that is not set, a field without a value
    Names,          \* values of the class and runtime attributes
    AlnumNames,     \* the ones made of ASCII letters and digits only
    Controllers,    \* running operator instances, each with its own finalizer
    Class,          \* option --class of each of them
    Runtime         \* option --runtime of each of them

Specs == [parent  : Zones \cup {NoZone},
          class   : Names \cup {nil},
          runtime : Names \cup {nil},
          ok      : BOOLEAN]    \* domain names, mail address and timers pass

\* Status.Observed: the responsible class and runtime, as strings.
Observations == [class : Names \cup {""}, runtime : Names \cup {""}]

Conditions == {"unknown", "true", "false"}

Status == [observed : Observations \cup {nil}, valid : Conditions]

HostedZone == [spec     : Specs,
               deleting : BOOLEAN,           \* a deletion timestamp is set
               fin      : SUBSET Controllers, \* finalizers, by their owner
               status   : Status]

\* Names are strings of bounded length.
ASSUME ZonesAssumption == IsFiniteSet(Zones)

ASSUME NamesAssumption ==
    /\ NoZone \notin Zones
    /\ nil \notin Names
    /\ nil \notin Observations
    /\ AlnumNames \subseteq Names
    /\ Absent \notin HostedZone

ASSUME ControllersAssumption ==
    /\ Class \in [Controllers -> Names \cup {nil}]
    /\ Runtime \in [Controllers -> Names \cup {nil}]

\* What the schema of the API lets users write: no class or runtime together
\* with a parent, and a class that is set stays.
Admitted(s) == s.parent # NoZone => s.class = nil /\ s.runtime = nil

AdmittedUpdate(old, s) == Admitted(s) /\ (old.class # nil => s.class = old.class)

NewZone(s) ==
    [spec |-> s, deleting |-> FALSE, fin |-> {},
     status |-> [observed |-> nil, valid |-> "unknown"]]

String(s) == IF s = nil THEN "" ELSE s

IsASCIIAlnumString(s) == s = "" \/ s \in AlnumNames

OptionsOf_pointers(c) == [class |-> Class[c], runtime |-> Runtime[c]]

OptionsOf(c) == [class |-> String(Class[c]), runtime |-> String(Runtime[c])]

-----------------------------------------------------------------------------
(***************************************************************************)
(* GetRootInfo follows the parent references of zone z through the objects *)
(* os.  It gives up at a reference back to a zone already passed, at a     *)
(* missing and at a deleted parent.  The start itself may be deleted.      *)
(***************************************************************************)
GetRootInfo(os, z) ==
    LET climb[p \in {y \in Zones : os[y] # Absent} \X SUBSET Zones] ==
            LET up == os[p[1]].spec.parent IN
            IF up = NoZone THEN [found |-> TRUE, root |-> p[1]]
            ELSE IF up \in p[2] \/ os[up] = Absent \/ os[up].deleting
                 THEN [found |-> FALSE, root |-> NoZone]
                 ELSE climb[<<up, p[2] \cup {up}>>]
    IN  climb[<<z, {z}>>]

(***************************************************************************)
(* What the walk is for: the end of the chain of parent references of z,   *)
(* found if there is one and every zone above z is alive.                  *)
(***************************************************************************)
Up(os, z) == IF os[z] = Absent THEN NoZone ELSE os[z].spec.parent

Closed(os, S) == \A w \in S : Up(os, w) # NoZone => Up(os, w) \in S

\* The zones passed on the way up from z, and z itself.
Passed(os, z) ==
    {x \in Zones : \A S \in SUBSET Zones : z \in S /\ Closed(os, S) => x \in S}

Alive(os, z) == os[z] # Absent /\ ~os[z].deleting

TopZone(os, z) == CHOOSE r \in Passed(os, z) : Up(os, r) = NoZone

ChainInfo(os, z) ==
    IF /\ \E r \in Passed(os, z) : Up(os, r) = NoZone
       /\ \A w \in Passed(os, z) \ {z} : Alive(os, w)
    THEN [found |-> TRUE, root |-> TopZone(os, z)]
    ELSE [found |-> FALSE, root |-> NoZone]

(***************************************************************************)
(* Responsibility.Check: does the root zone with spec s belong to a        *)
(* controller running with these options?  Without a class only the class  *)
(* counts.  With one, class and runtime are compared, but the last         *)
(* statement, reached when both match, returns false as well.              *)
(***************************************************************************)
CheckResult == FALSE

Check(s, class, runtime) ==
    \/ s.class = nil /\ class = nil
    \/ /\ s.class # nil
       /\ class = s.class
       /\ s.runtime # nil => runtime = s.runtime
       /\ CheckResult

(***************************************************************************)
(* IsResponsibile for a zone object o whose root object is r: the holder   *)
(* of the finalizer always is; otherwise a registered responsibility wins  *)
(* over the attributes of the spec.                                        *)
(***************************************************************************)
IsResponsible(c, o, r) ==
    \/ c \in o.fin
    \/ /\ r.status.observed = nil
       /\ Check(r.spec, Class[c], Runtime[c])
    \/ /\ r.status.observed # nil
       /\ r.status.observed = OptionsOf(c)

\* The zone is served by c, but should not be any more.
ChangedResponsibility_rootsOnly(c, o) ==
    /\ c \in o.fin
    /\ o.status.observed # nil
    /\ o.status.observed # [class   |-> String(o.spec.class),
                            runtime |-> String(o.spec.runtime)]

ChangedResponsibility(c, o) ==
    /\ c \in o.fin
    /\ \/ o.spec.parent # NoZone
       \/ /\ o.status.observed # nil
          /\ o.status.observed # [class   |-> String(o.spec.class),
                                  runtime |-> String(o.spec.runtime)]

\* Validation of the responsibility fields, done for everybody's zones.
AlnumFields(s) ==
    IsASCIIAlnumString(String(s.runtime)) /\ IsASCIIAlnumString(String(s.class))

ValidateZone(s) ==
    s.ok /\ (s.parent # NoZone => s.runtime = nil /\ s.class = nil)

\* Validate: a nested zone is invalid below a parent known to be invalid.
Validate(os, s) ==
    /\ ValidateZone(s)
    /\ s.parent # NoZone => os[s.parent].status.valid # "false"

\* SetStatusCondition and SetPointerField on a zone object.
SetValid(o, v) == [o EXCEPT !.status.valid = v]

SetObserved(o, obs) ==
    IF o.status.observed = nil THEN [o EXCEPT !.status.observed = obs] ELSE o
=============================================================================
