--------------------------- MODULE SceneDiagnosis ---------------------------
(***************************************************************************)
(* The rig diagnosis: a user edits one character, a mesh and the armature  *)
(* that deforms it, and asks for a report, from the Blender panel          *)
(* (operators.py, which reads the scene through bpy_inspectors.py) or from *)
(* an agent's tool call (mcp_server/tools.py, which is handed both         *)
(* descriptions).  Both go through RigAnalyzer.analyze (analysis/rig.py).  *)
(*                                                                         *)
(* A bone name is a record of the part a side pattern reads at the start,  *)
(* the stem the finger patterns search, and the part a side pattern reads  *)
(* at the end; searching is a table of the patterns a stem contains.       *)
(***************************************************************************)
EXTENDS Naturals, Sequences, FiniteSets

CONSTANTS
    VertexCounts,   \* vertex counts the mesh may have
    BoneNames,      \* names the user may give a bone, see Name
    Hands,          \* the sets of bones an imported rig may start from
    MaxEdits        \* bound on the edits after the import

VARIABLES
    scene,          \* the character as Blender holds it
    edits,          \* edits made so far
    report          \* the last report, NoReport once the scene has moved on

diagnosisVars == <<scene, edits, report>>

NoReport == [via |-> "nobody", examined |-> {}, uncounted |-> FALSE,
             issues |-> {}, ready |-> FALSE]

----------------------------------------------------------------------------
(* Names and patterns *)

Name(start, stem, end) == [start |-> start, stem |-> stem, end |-> end]

Fingers == {"thumb", "index", "middle", "ring", "pinky"}
Sides == {"LEFT", "RIGHT", "UNKNOWN"}

FINGER_PATTERNS ==
    [thumb  |-> {"thumb", "polex", "finger_1", "ngon_cai", "cai"},
     index  |-> {"index", "forefinger", "finger_2", "ngon_tro", "tro"},
     middle |-> {"middle", "finger_3", "ngon_giua", "giua"},
     ring   |-> {"ring", "finger_4", "ngon_ap_ut", "ap_ut"},
     pinky  |-> {"pinky", "little", "finger_5", "ngon_ut", "ut"}]

(* The patterns found inside a stem: the Vietnamese ring finger, "ap ut",   *)
(* contains the little one, "ut", and "control" contains the index, "tro".  *)
PatternsIn(stem) ==
    CASE stem = "ngon_cai"   -> {"ngon_cai", "cai"}
      [] stem = "ngon_tro"   -> {"ngon_tro", "tro"}
      [] stem = "ngon_giua"  -> {"ngon_giua", "giua"}
      [] stem = "ngon_ap_ut" -> {"ngon_ap_ut", "ap_ut", "ut"}
      [] stem = "ngon_ut"    -> {"ngon_ut", "ut"}
      [] stem = "control"    -> {"tro"}
      [] OTHER               -> {stem}

FingersNamed(name) ==
    {f \in Fingers : FINGER_PATTERNS[f] \cap PatternsIn(name.stem) # {}}

SIDE_PATTERNS ==
    [LEFT  |-> [starts |-> {"left_", "left.", "l_", "l."},
                ends   |-> {".l", "_l", ".left", "_left"}],
     RIGHT |-> [starts |-> {"right_", "right.", "r_", "r."},
                ends   |-> {".r", "_r", ".right", "_right"}]]

OnSide(name, side) ==
    \/ name.start \in SIDE_PATTERNS[side].starts
    \/ name.end \in SIDE_PATTERNS[side].ends

(* A slip: the prefixes are not searched. *)
SideNamed_EndsOnly(name) ==
    CASE name.end \in SIDE_PATTERNS["LEFT"].ends  -> "LEFT"
      [] name.end \in SIDE_PATTERNS["RIGHT"].ends -> "RIGHT"
      [] OTHER                                    -> "UNKNOWN"

(* The first side that matches, LEFT before RIGHT. *)
SideNamed(name) ==
    IF OnSide(name, "LEFT") THEN "LEFT"
    ELSE IF OnSide(name, "RIGHT") THEN "RIGHT" ELSE "UNKNOWN"

----------------------------------------------------------------------------
(* What the inspectors read *)

(* get_mesh_info stops at the first ARMATURE modifier, with a target or     *)
(* without one; the weights are not read from Blender.                      *)
ArmatureModifiers(s) == {i \in DOMAIN s.modifiers : s.modifiers[i] # "other"}

(* A slip: the loop runs on to the last one. *)
FirstArmature_Last(s) ==
    CHOOSE i \in ArmatureModifiers(s) : \A j \in ArmatureModifiers(s) : i >= j

FirstArmature(s) ==
    CHOOSE i \in ArmatureModifiers(s) : \A j \in ArmatureModifiers(s) : i <= j

get_mesh_info(s) ==
    [vertices |-> s.vertices, applied |-> s.meshApplied, weights |-> {},
     hasArmature |-> ArmatureModifiers(s) # {},
     target |-> IF ArmatureModifiers(s) = {} THEN "none"
                ELSE s.modifiers[FirstArmature(s)]]

(* hasBones: total_bones, a field beside the bones, is not 0. *)
get_armature_info(s) ==
    [bones |-> s.bones, hasBones |-> s.bones # {}, applied |-> s.rigApplied]

----------------------------------------------------------------------------
(* The analysis *)

Issue(code, severity) == [code |-> code, severity |-> severity, side |-> "none"]
If(condition, issue) == IF condition THEN {issue} ELSE {}

MeshIssues(mesh) ==
    If(mesh.vertices > 45000, Issue("MESH_HIGH_POLY", "WARNING"))
    \cup If(mesh.vertices \in 1..45000, Issue("MESH_POLY_OK", "INFO"))
    \cup If(~mesh.applied, Issue("MESH_UNAPPLIED_TRANSFORM", "WARNING"))
    \cup If(~mesh.hasArmature, Issue("MESH_NO_ARMATURE_MODIFIER", "WARNING"))
    \cup If("unweighted" \in mesh.weights,
            Issue("WEIGHTS_UNWEIGHTED_VERTICES", "WARNING"))
    \cup If("many" \in mesh.weights, Issue("WEIGHTS_EXCEED_LIMIT", "WARNING"))

(* The fingers detected on each side; a side with none has no summary. *)
_detect_finger_heuristics(bones) ==
    [side \in Sides |->
        UNION {FingersNamed(b) : b \in {n \in bones : SideNamed(n) = side}}]

FingerIssue(side, detected) ==
    IF detected = Fingers
    THEN [code |-> "FINGERS_COMPLETE_HEURISTIC", severity |-> "INFO", side |-> side]
    ELSE [code |-> "FINGERS_PARTIAL_HEURISTIC", severity |-> "SUGGESTION", side |-> side]

_evaluate_finger_diagnostic(summaries) ==
    LET summarised == {side \in Sides : summaries[side] # {}}
    IN  IF summarised = {}
        THEN {Issue("FINGERS_NOT_DETECTED_BY_NAME", "SUGGESTION")}
        ELSE {FingerIssue(side, summaries[side]) : side \in summarised}

ArmatureIssues(armature) ==
    If(~armature.applied, Issue("ARMATURE_UNAPPLIED_TRANSFORM", "WARNING"))
    \cup IF ~armature.hasBones
         THEN {Issue("ARMATURE_EMPTY", "ERROR")}
         ELSE _evaluate_finger_diagnostic(_detect_finger_heuristics(armature.bones))

Blocks(issue) == issue.severity \in {"ERROR", "WARNING"}

(* `meshes` and `armatures` hold the description given, or nothing; the     *)
(* report keeps whether an armature was described with bones but no count.  *)
analyze(via, meshes, armatures) ==
    LET issues == (UNION {MeshIssues(m) : m \in meshes})
                  \cup (UNION {ArmatureIssues(a) : a \in armatures})
    IN  [via |-> via, issues |-> issues,
         examined |-> If(meshes # {}, "mesh") \cup If(armatures # {}, "armature"),
         uncounted |-> \E a \in armatures : a.bones # {} /\ ~a.hasBones,
         ready |-> \A i \in issues : ~Blocks(i)]

----------------------------------------------------------------------------
(* The user: an import, then edits of one property of the scene at a time *)

DiagnosisInit ==
    /\ \E hand \in Hands, v \in VertexCounts :
          scene = [active |-> "mesh", vertices |-> v, meshApplied |-> TRUE,
                   modifiers |-> <<"rig">>, weights |-> {},
                   bones |-> hand, rigApplied |-> TRUE]
    /\ edits = 0
    /\ report = NoReport

Edit(s) ==
    /\ edits < MaxEdits
    /\ s # scene
    /\ scene' = s
    /\ edits' = edits + 1
    /\ report' = NoReport

Select == \E a \in {"none", "mesh", "armature", "camera"} :
              Edit([scene EXCEPT !.active = a])
Transform == \E m, r \in BOOLEAN :
              Edit([scene EXCEPT !.meshApplied = m, !.rigApplied = r])
Stack == \E first \in {"other", "dangling", "rig"} :
              \E rest \in {<<>>, <<"rig">>, <<"dangling">>} :
                  Edit([scene EXCEPT !.modifiers = <<first>> \o rest])
Unstack == Edit([scene EXCEPT !.modifiers = <<>>])
Weigh == \E w \in SUBSET {"unweighted", "many"} : Edit([scene EXCEPT !.weights = w])
AddBone == \E b \in BoneNames : Edit([scene EXCEPT !.bones = @ \cup {b}])
RemoveBones == \E left \in {{}} \cup {scene.bones \ {b} : b \in scene.bones} :
              Edit([scene EXCEPT !.bones = left])

(* RIGMATE_OT_diagnose_scene: nothing active is refused; a mesh brings the  *)
(* armature its modifier targets; any other type brings neither.            *)
DiagnoseScene ==
    /\ scene.active # "none"
    /\ LET mesh == get_mesh_info(scene)
           meshes == If(scene.active = "mesh", mesh)
           armatures == If(\/ scene.active = "armature"
                           \/ scene.active = "mesh" /\ mesh.target = "rig",
                           get_armature_info(scene))
       IN  report' = analyze("panel", meshes, armatures)
    /\ UNCHANGED <<scene, edits>>

(* diagnose_rig: the agent describes the mesh with its weights, the         *)
(* armature, both or neither; the target of the modifier is not consulted.  *)
(* total_bones is 0 where the agent leaves it out (core/models.py:38).      *)
DiagnoseRig ==
    /\ \E withMesh, withArmature, counted \in BOOLEAN :
          report' = analyze("tool",
                     If(withMesh, [get_mesh_info(scene) EXCEPT !.weights = scene.weights]),
                     If(withArmature, [get_armature_info(scene) EXCEPT
                                          !.hasBones = @ /\ counted]))
    /\ UNCHANGED <<scene, edits>>

DiagnosisNext ==
    \/ Select \/ Transform \/ Stack \/ Unstack \/ Weigh \/ AddBone \/ RemoveBones
    \/ DiagnoseScene \/ DiagnoseRig

DiagnosisSpec == DiagnosisInit /\ [][DiagnosisNext]_diagnosisVars

----------------------------------------------------------------------------
(* Properties *)

(* What a report is about: what the agent described; or the active object,  *)
(* and the armature that deforms it.                                        *)
Deformed(s) == \E i \in DOMAIN s.modifiers : s.modifiers[i] = "rig"
About(r, s) ==
    IF r.via = "tool" THEN r.examined
    ELSE CASE s.active = "mesh"     -> {"mesh"} \cup If(Deformed(s), "armature")
           [] s.active = "armature" -> {"armature"}
           [] OTHER                 -> {}

(* What stops a character from being exported, said of the scene itself and *)
(* not of the issues: the mesh is over the budget of 45000 vertices, its    *)
(* transform is not applied or its weights are bad (which only a tool call  *)
(* is told), the armature has no bones or an unapplied transform ...        *)
Defect(parts, r, s) ==
    \/ "mesh" \in parts /\ (s.vertices > 45000 \/ ~s.meshApplied)
    \/ "mesh" \in parts /\ r.via = "tool" /\ s.weights # {}
    \/ "armature" \in parts /\ (s.bones = {} \/ ~s.rigApplied)

(* ... or no armature deforms the mesh.                                     *)
Defective(r, s) == \/ Defect(About(r, s), r, s)
                   \/ "mesh" \in About(r, s) /\ ~Deformed(s)

(* The first armature modifier has no target, and the mesh is taken to be   *)
(* deformed by it and by no other (bpy_inspectors.py:157-162).              *)
Misleading(s) ==
    \E i \in DOMAIN s.modifiers :
        /\ s.modifiers[i] = "dangling"
        /\ \A k \in 1 .. i - 1 : s.modifiers[k] = "other"

(* A fresh report raises no false alarm, unless the agent gave no count of  *)
(* the bones; it passes over no defect of what it has examined; and it      *)
(* examines the armature that deforms the mesh, and notices that there is   *)
(* none, unless the mesh is a misleading one.                               *)
(* analysis/rig.py:156, operators.py:151-162                                *)
ReadyMeansNoDefect ==
    report # NoReport =>
        /\ ~report.ready => Defective(report, scene) \/ report.uncounted
        /\ report.ready => ~Defect(report.examined, report, scene)
        /\ report.ready /\ Defective(report, scene) =>
              "mesh" \in report.examined /\ Misleading(scene)

(* The finger a bone is and the hands it belongs to, as an animator reads   *)
(* the name, whatever patterns it happens to contain.                       *)
FingerOf(name) ==
    CASE name.stem \in {"finger_1", "ngon_cai"} -> {"thumb"}
      [] name.stem \in {"finger_2", "ngon_tro"} -> {"index"}
      [] name.stem \in {"finger_3", "ngon_giua"} -> {"middle"}
      [] name.stem \in {"finger_4", "ngon_ap_ut"} -> {"ring"}
      [] name.stem \in {"finger_5", "ngon_ut", "little"} -> {"pinky"}
      [] OTHER -> {name.stem} \cap Fingers
HandOf(name) ==
    (IF \/ name.start \in {"left_", "left.", "l_", "l."}
        \/ name.end \in {".l", "_l", ".left", "_left"} THEN {"LEFT"} ELSE {})
    \cup
    (IF \/ name.start \in {"right_", "right.", "r_", "r."}
        \/ name.end \in {".r", "_r", ".right", "_right"} THEN {"RIGHT"} ELSE {})

(* A hand whose five fingers are all there, each named for its side and no  *)
(* other, is reported complete and never partial, whatever other bones the  *)
(* armature has and in whichever convention the fingers are named, unless   *)
(* the agent gave no count of the bones.                                    *)
(* analysis/rig.py:204-214, 263-291                                         *)
WholeHandIsComplete ==
    \A side \in {"LEFT", "RIGHT"} :
        LET hand == UNION {FingerOf(b) : b \in {n \in scene.bones : HandOf(n) = {side}}}
        IN  "armature" \in report.examined /\ ~report.uncounted /\ hand = Fingers =>
                {i.code : i \in {j \in report.issues : j.side = side}}
                    = {"FINGERS_COMPLETE_HEURISTIC"}
=============================================================================
