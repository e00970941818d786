---------------------------- MODULE MCSideBySide ----------------------------
(***************************************************************************)
(* Side by side, five machines that share nothing: a behaviour is one of    *)
(* Journal, SceneDiagnosis, Retention, Quota or JobBinding, the other four  *)
(* keeping still in a state they may start from.                            *)
(***************************************************************************)
EXTENDS Journal, SceneDiagnosis, Retention, Quota, JobBinding

VARIABLE subject

MCVertexCounts == {0, 45000, 45001}

LeftHand == {Name("left_", f, "") : f \in Fingers}
VietnameseHand == {Name("", s, "_r") : s \in
                     {"ngon_cai", "ngon_tro", "ngon_giua", "ngon_ap_ut", "ngon_ut"}}
NumberedHand == {Name("", s, ".l") : s \in
                     {"finger_1", "finger_2", "finger_3", "finger_4", "finger_5"}}
MixamoHand == {Name("mixamorig:left", f, "") : f \in Fingers}

MCHands == {{}, LeftHand, VietnameseHand, NumberedHand, MixamoHand}
MCBoneNames ==
    (UNION MCHands) \cup {Name("", "control", ".l"), Name("left_", "thumb", ".r"),
                        Name("", "thumb", ".r"), Name("", "hips", ""),
                        Name("", "little", ".l.001")}

MCSizes == {1, 4}

\* "a" and "a:antigravity", and an account whose key is that of another.
MCProfiles == {<<"default">>, <<"a">>, <<"a", "antigravity">>}
MCNamed == {[profile |-> <<"a">>, provider |-> <<"antigravity", "antigravity">>,
             model |-> <<"gemini">>]}

(* A machine that is not the subject starts in one of its initial states.  *)
DiagnosisIdle == DiagnosisInit /\ scene.bones = {} /\ scene.vertices = 0
BindingIdle == BindingInit /\ given = {}

Init ==
    /\ subject \in {"journal", "diagnosis", "retention", "quota", "binding"}
    /\ IF subject = "diagnosis" THEN DiagnosisInit ELSE DiagnosisIdle
    /\ IF subject = "binding" THEN BindingInit ELSE BindingIdle
    /\ JournalInit /\ RetentionInit /\ QuotaInit

JournalStep ==
    /\ subject = "journal" /\ JournalNext
    /\ UNCHANGED <<subject, diagnosisVars, retentionVars, quotaVars, bindingVars>>
DiagnosisStep ==
    /\ subject = "diagnosis" /\ DiagnosisNext
    /\ UNCHANGED <<subject, journalVars, retentionVars, quotaVars, bindingVars>>
RetentionStep ==
    /\ subject = "retention" /\ RetentionNext
    /\ UNCHANGED <<subject, journalVars, diagnosisVars, quotaVars, bindingVars>>
QuotaStep ==
    /\ subject = "quota" /\ QuotaNext
    /\ UNCHANGED <<subject, journalVars, diagnosisVars, retentionVars, bindingVars>>
BindingStep ==
    /\ subject = "binding" /\ BindingNext
    /\ UNCHANGED <<subject, journalVars, diagnosisVars, retentionVars, quotaVars>>

Next == JournalStep \/ DiagnosisStep \/ RetentionStep \/ QuotaStep \/ BindingStep

allVars ==
    <<subject, journalVars, diagnosisVars, retentionVars, quotaVars, bindingVars>>

Spec == Init /\ [][Next]_allVars
=============================================================================
