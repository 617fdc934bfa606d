---------------------------- MODULE StorageForms ----------------------------
(* Storage volumes of a deployment: the editor of the web form               *)
(* (frontend StorageVolumesSection.tsx), the editor of the Headlamp plugin    *)
(* (StorageVolumesEditor.tsx), and the three places that judge what they      *)
(* send: the schema of the route, the defaults of its preview, and the        *)
(* defaulting and validating webhook of the controller.                       *)
(*                                                                            *)
(* Undefined and the empty string are told apart where the code does: in      *)
(* size (the schema's pattern refuses "") and in storageClassName ("" is an   *)
(* explicit choice).  Elsewhere both are falsy and "" stands for both.        *)
(* Lengths and the alphabet of names are left out.                            *)
EXTENDS Naturals, Sequences, FiniteSets

CONSTANTS
  VolumeNames,   \* names a volume can have; generateVolumeName takes the first free
  AutoClaim,     \* the claim name <deployment>-<volume> of a volume name
  Claims,        \* names of existing claims
  Paths,         \* mount paths a volume may have
  TypedClaims,   \* bound: the claims and the paths a user of a form types
  TypedPaths,
  RelativePaths, \* those that do not start with /
  SystemPaths,   \* those at or below /dev, /proc, /sys, /etc, /var/run
  StorageClasses,\* storage classes a user may type, "" and Unset included
  TypedModes,    \* bound: the access modes a user of a form chooses
  ClaimLists,    \* the lists of claims a namespace may have
  ClientVolumes, \* volumes a client of the API may send
  Companions,    \* volumes it may send along
  Unset,         \* JavaScript undefined
  MaxVolumes     \* MAX_VOLUMES

VARIABLES
  editor,   \* who writes the volumes: the web form, the plugin, an API client
  vols,     \* the volumes, as they would be sent
  modes,    \* web form: sourceModes, the disk source chosen for each card
  pvcs      \* web form: availablePVCs, {} before they are loaded

svars == <<editor, vols, modes, pvcs>>

Purposes == {"modelCache", "compilationCache", "custom"}
Volume == [name : VolumeNames, purpose : Purposes, mountPath : Paths \cup {""},
           readOnly : BOOLEAN, size : {Unset, "", "100Gi"},
           claimName : Claims \cup {""}, storageClass : StorageClasses,
           accessMode : {"", "ReadWriteOnce", "ReadWriteMany"}]

StorageAssumption ==
  /\ AutoClaim \in [VolumeNames -> STRING]
  /\ "/model-cache" \in Paths /\ "/compilation-cache" \in Paths
  /\ {"", "/model-cache", "/compilation-cache"} \cap (RelativePaths \cup SystemPaths) = {}
  /\ Unset \in StorageClasses /\ TypedModes \subseteq {"ReadWriteOnce", "ReadWriteMany"}
  /\ ClaimLists \subseteq SUBSET Claims /\ TypedClaims \subseteq Claims /\ TypedPaths \subseteq Paths
  /\ ClientVolumes \cup Companions \subseteq Volume
  /\ MaxVolumes \in 2..8

Indices == 1..Len(vols)
DefaultPath(purpose) == CASE purpose = "modelCache"       -> "/model-cache"
                          [] purpose = "compilationCache" -> "/compilation-cache"
                          [] OTHER                        -> ""
HasSize(v) == v.size \notin {Unset, ""}
Distinct(vs, f(_)) ==
  \A i, j \in DOMAIN vs : i # j /\ f(vs[i]) # "" => f(vs[i]) # f(vs[j])
AtMostOne(vs, purpose) == Cardinality({i \in DOMAIN vs : vs[i].purpose = purpose}) <= 1

-----------------------------------------------------------------------------
(* The schema of POST /deployments and /preview (createDeploymentSchema).     *)
ResolvedPath(v)  == IF v.mountPath # "" THEN v.mountPath ELSE DefaultPath(v.purpose)
ResolvedClaim(v) == IF v.claimName # "" THEN v.claimName
                    ELSE IF HasSize(v) THEN AutoClaim[v.name] ELSE ""

VolumeAccepted(v) ==
  /\ v.size # ""
  /\ v.mountPath \notin RelativePaths
  /\ v.purpose = "custom" => v.mountPath # ""
  /\ v.mountPath \notin SystemPaths
  /\ HasSize(v) \/ v.claimName # ""
  /\ ~(HasSize(v) /\ v.readOnly)
  /\ HasSize(v) /\ v.claimName # "" => v.claimName = AutoClaim[v.name]
  /\ v.accessMode # "" => HasSize(v)
  /\ v.storageClass # Unset => HasSize(v)

NameOf(v) == v.name
SchemaAccepts(vs) ==
  /\ Len(vs) <= MaxVolumes
  /\ Distinct(vs, NameOf) /\ Distinct(vs, ResolvedPath) /\ Distinct(vs, ResolvedClaim)
  /\ \A i \in DOMAIN vs : VolumeAccepted(vs[i])
  /\ AtMostOne(vs, "modelCache") /\ AtMostOne(vs, "compilationCache")

\* Mutant: the preview leaves the access mode open.
PreviewVolumeNoAccess(v) ==
  [v EXCEPT !.mountPath = IF @ = "" THEN DefaultPath(v.purpose) ELSE @,
            !.claimName = IF HasSize(v) /\ @ = "" THEN AutoClaim[v.name] ELSE @]

(* The defaults the preview fills in, "so the preview manifest matches what   *)
(* Kubernetes will persist".                                                  *)
PreviewVolume(v) ==
  [v EXCEPT !.mountPath = IF @ = "" THEN DefaultPath(v.purpose) ELSE @,
            !.claimName = IF HasSize(v) /\ @ = "" THEN AutoClaim[v.name] ELSE @,
            !.accessMode = IF HasSize(v) /\ @ = "" THEN "ReadWriteMany" ELSE @]

(* The defaulting webhook on the same volume.                                 *)
DefaultedVolume(v) ==
  LET filled == [v EXCEPT !.mountPath = IF @ # "" THEN @ ELSE
                   CASE v.purpose = "modelCache"       -> "/model-cache"
                     [] v.purpose = "compilationCache" -> "/compilation-cache"
                     [] OTHER -> ""]
  IN IF v.size = Unset THEN filled
     ELSE [filled EXCEPT !.claimName = IF @ = "" THEN AutoClaim[v.name] ELSE @,
                         !.accessMode = IF @ = "" THEN "ReadWriteMany" ELSE @]

(* validateStorage, which runs after the defaulting webhook.                  *)
ClaimOf(v) == v.claimName
PathOf(v)  == v.mountPath
WebhookAccepts(vs) ==
  /\ \A i \in DOMAIN vs : LET v == vs[i] IN
       /\ v.size = Unset => v.claimName # ""
       /\ ~(v.size # Unset /\ v.readOnly)
       /\ v.size # Unset /\ v.claimName # "" => v.claimName = AutoClaim[v.name]
       /\ v.accessMode # "" => v.size # Unset
       /\ v.storageClass # Unset => v.size # Unset
       /\ v.mountPath \notin RelativePaths \cup SystemPaths
       /\ ~(v.purpose = "custom" /\ v.mountPath = "")
  /\ Distinct(vs, NameOf) /\ Distinct(vs, PathOf) /\ Distinct(vs, ClaimOf)
  /\ AtMostOne(vs, "modelCache") /\ AtMostOne(vs, "compilationCache")

Each(f(_), vs) == [i \in DOMAIN vs |-> f(vs[i])]

-----------------------------------------------------------------------------
(* The web form.                                                              *)
Drop(s, i) == [j \in 1..(Len(s) - 1) |-> IF j < i THEN s[j] ELSE s[j + 1]]
FreeName(vs) == CHOOSE n \in VolumeNames : \A i \in DOMAIN vs : vs[i].name # n
UpdateVolume(i, v) == vols' = [vols EXCEPT ![i] = v]

(* getSourceMode: the explicit choice, else what the volume looks like.       *)
SourceMode(i) ==
  IF modes[i] # "none" THEN modes[i]
  ELSE IF HasSize(vols[i]) THEN "new"
  ELSE IF vols[i].claimName # "" THEN "existing" ELSE "new"

AddVolume ==
  /\ Len(vols) < MaxVolumes
  /\ \E n \in VolumeNames : \A i \in Indices : vols[i].name # n
  /\ vols' = Append(vols, [name |-> FreeName(vols), purpose |-> "custom",
                           mountPath |-> "", readOnly |-> FALSE, size |-> "100Gi",
                           claimName |-> "", storageClass |-> Unset,
                           accessMode |-> IF editor = "web" THEN "ReadWriteMany"
                                          ELSE "ReadWriteOnce"])
  /\ modes' = IF editor = "web" THEN [modes EXCEPT ![Len(vols) + 1] = "new"] ELSE modes
  /\ UNCHANGED <<editor, pvcs>>

(* removeVolume re-indexes the state that is kept by position.                *)
Reindexed(i) ==
  [j \in 1..MaxVolumes |-> IF j < i THEN modes[j]
                           ELSE IF j < MaxVolumes THEN modes[j + 1] ELSE "none"]
RemoveVolume(i) ==
  /\ vols' = Drop(vols, i)
  /\ modes' = IF editor = "web" THEN Reindexed(i) ELSE modes
  /\ UNCHANGED <<editor, pvcs>>

(* A singleton purpose that another card uses cannot be chosen.  The web form *)
(* also fills in the default path of a cache.                                 *)
ChangePurpose(i, purpose) ==
  LET v == vols[i] IN
  /\ purpose # "custom" /\ v.purpose # purpose => \A j \in Indices : vols[j].purpose # purpose
  /\ UpdateVolume(i, [v EXCEPT !.purpose = purpose,
       !.mountPath = IF editor = "web" /\ DefaultPath(purpose) # ""
                        /\ @ \in {"", DefaultPath(v.purpose)}
                     THEN DefaultPath(purpose) ELSE @])
  /\ UNCHANGED <<editor, modes, pvcs>>

Rename(i, n) ==
  /\ UpdateVolume(i, [vols[i] EXCEPT !.name = n])
  /\ UNCHANGED <<editor, modes, pvcs>>

(* Only the web form has a field for the path and a read-only switch, which   *)
(* is disabled for a new disk.                                                *)
TypePath(i, path) ==
  /\ editor = "web"
  /\ UpdateVolume(i, [vols[i] EXCEPT !.mountPath = path])
  /\ UNCHANGED <<editor, modes, pvcs>>

ToggleReadOnly(i) ==
  /\ editor = "web" /\ SourceMode(i) = "existing"
  /\ UpdateVolume(i, [vols[i] EXCEPT !.readOnly = ~@])
  /\ UNCHANGED <<editor, modes, pvcs>>

ChooseSource(i, mode) ==
  LET v == vols[i] IN
  /\ editor = "web"
  /\ modes' = [modes EXCEPT ![i] = mode]
  /\ UpdateVolume(i,
       IF mode = "new"
       THEN [v EXCEPT !.size = IF HasSize(v) THEN @ ELSE "100Gi", !.claimName = "",
                      !.readOnly = FALSE,
                      !.accessMode = IF @ = "" THEN "ReadWriteMany" ELSE @]
       ELSE [v EXCEPT !.size = Unset, !.storageClass = Unset, !.accessMode = ""])
  /\ UNCHANGED <<editor, pvcs>>

(* Clearing the size.  The web form turns "" into undefined and switches the  *)
(* card to "existing"; the plugin stores the empty string.                    *)
ClearSize(i) ==
  /\ IF editor = "web"
     THEN /\ SourceMode(i) = "new"
          /\ UpdateVolume(i, [vols[i] EXCEPT !.size = Unset])
          /\ modes' = [modes EXCEPT ![i] = "existing"]
     ELSE /\ UpdateVolume(i, [vols[i] EXCEPT !.size = ""])
          /\ UNCHANGED modes
  /\ UNCHANGED <<editor, pvcs>>

TypeSize(i) ==
  /\ editor = "plugin"
  /\ UpdateVolume(i, [vols[i] EXCEPT !.size = "100Gi"])
  /\ UNCHANGED <<editor, modes, pvcs>>

ChooseAccess(i, mode) ==
  /\ editor = "web" => SourceMode(i) = "new"
  /\ UpdateVolume(i, [vols[i] EXCEPT !.accessMode = mode])
  /\ UNCHANGED <<editor, modes, pvcs>>

(* In the plugin "" reads as undefined.                                       *)
ChooseStorageClass(i, class) ==
  /\ editor = "web" => SourceMode(i) = "new"
  /\ editor = "plugin" => class # ""
  /\ UpdateVolume(i, [vols[i] EXCEPT !.storageClass = class])
  /\ UNCHANGED <<editor, modes, pvcs>>

(* The claim is typed, or chosen from the claims of the namespace.            *)
TypeClaim(i, claim) ==
  /\ editor = "web" => SourceMode(i) = "existing" /\ (pvcs # {} => claim \in pvcs)
  /\ UpdateVolume(i, [vols[i] EXCEPT !.claimName = claim])
  /\ UNCHANGED <<editor, modes, pvcs>>

(* The claims of the namespace arrive, or the namespace changes; the effect   *)
(* clears a chosen claim that is not among them.                              *)
LoadClaims(found) ==
  /\ editor = "web"
  /\ pvcs' = found
  /\ vols' = [i \in Indices |->
                IF found # {} /\ SourceMode(i) = "existing" /\ vols[i].claimName \notin found
                THEN [vols[i] EXCEPT !.claimName = ""] ELSE vols[i]]
  /\ UNCHANGED <<editor, modes>>

Init ==
  /\ editor \in {"web", "plugin"}
  /\ vols = << >>
  /\ modes = [i \in 1..MaxVolumes |-> "none"]
  /\ pvcs = {}

(* A client of the API sends volumes of its own.                              *)
SendVolumes ==
  /\ vols = << >> /\ editor = "web"
  /\ editor' = "api"
  /\ \E v \in ClientVolumes : vols' \in {<<v>>} \cup {<<v, w>> : w \in Companions}
  /\ UNCHANGED <<modes, pvcs>>

Edit ==
  \/ AddVolume
  \/ \E i \in Indices :
       \/ RemoveVolume(i)
       \/ \E p \in Purposes : ChangePurpose(i, p)
       \/ \E n \in VolumeNames : Rename(i, n)
       \/ \E p \in TypedPaths \cup {""} : TypePath(i, p)
       \/ ToggleReadOnly(i)
       \/ \E m \in {"new", "existing"} : ChooseSource(i, m)
       \/ ClearSize(i)
       \/ TypeSize(i)
       \/ \E m \in TypedModes : ChooseAccess(i, m)
       \/ \E c \in StorageClasses : ChooseStorageClass(i, c)
       \/ \E c \in TypedClaims \cup {""} : TypeClaim(i, c)
  \/ \E found \in ClaimLists : LoadClaims(found)

Next == (editor # "api" /\ Edit) \/ SendVolumes
Spec == Init /\ [][Next]_svars

-----------------------------------------------------------------------------
TypeOK ==
  /\ editor \in {"web", "plugin", "api"}
  /\ Len(vols) <= MaxVolumes /\ \A i \in Indices : vols[i] \in Volume
  /\ modes \in [1..MaxVolumes -> {"none", "new", "existing"}]
  /\ pvcs \subseteq Claims

(* Route and webhook judge the same volumes alike: what the schema lets       *)
(* through is what the webhook admits after its defaults, so neither a 201    *)
(* that is refused by admission nor a refusal of what the cluster would take; *)
(* and the preview shows the volumes as the cluster will store them.  A size  *)
(* of "" is no quantity and never reaches the webhook.                        *)
RouteMatchesWebhook ==
  /\ (\A i \in Indices : vols[i].size # "") =>
       (SchemaAccepts(vols) <=> WebhookAccepts(Each(DefaultedVolume, vols)))
  /\ SchemaAccepts(vols) => Each(PreviewVolume, vols) = Each(DefaultedVolume, vols)
=============================================================================
