----------------------------- MODULE MCServices -----------------------------
(***************************************************************************)
(* Instances of AgreementWizard, Mdm and Certification for TLC.  They      *)
(* share nothing, so a behaviour runs one of them and the others stay as   *)
(* they began.                                                             *)
(***************************************************************************)
EXTENDS AgreementWizard, Mdm, Certification, TLC

CONSTANTS ann, ben, s1, s2, a1, a2, a3, ask, keep, sign, done,
          run1, c1, c2, v1, v2, rules1, p1, d1, k1, x1

VARIABLE focus

ServicesVars == <<wizardVars, mdmVars, certVars, focus>>

ServicesInit == WizardInit /\ MdmInit /\ CertInit
                /\ focus \in {"wizard", "mdm", "certification"}

ServicesNext ==
    /\ UNCHANGED focus
    /\ \/ focus = "wizard" /\ WizardNext /\ UNCHANGED <<mdmVars, certVars>>
       \/ focus = "mdm" /\ MdmNext /\ UNCHANGED <<wizardVars, certVars>>
       \/ focus = "certification" /\ CertNext /\ UNCHANGED <<wizardVars, mdmVars>>

ServicesSpec == ServicesInit /\ [][ServicesNext]_ServicesVars

\* The parts keep their types.
ServicesTypeOK == WizardTypeOK /\ MdmTypeOK /\ CertTypeOK

-----------------------------------------------------------------------------
(* Two definitions: ask, persist the agreement, sign, a pass step; and sign,
   ask, and a pass step that has an on_fail, so it is shown as a step of its own. *)

Kinds == [p \in {ask, keep, sign, done} |->
            CASE p = keep -> "persist" [] p = done -> "pass" [] OTHER -> "input"]

KeepEarly == [first |-> ask, kind |-> Kinds, branches |-> {},
              next |-> [p \in {ask, keep, sign, done} |->
                          CASE p = ask -> keep [] p = keep -> sign
                            [] p = sign -> done [] OTHER -> NoPage]]
KeepNever == [first |-> sign, kind |-> Kinds, branches |-> {done},
              next |-> [p \in {ask, keep, sign, done} |->
                          CASE p = sign -> ask [] p = ask -> done [] OTHER -> NoPage]]

BothForms == {KeepEarly, KeepNever}

\* A product feeds a dataset and a contract, the dataset the same contract.
Diamond == {<<p1, d1>>, <<p1, k1>>, <<d1, k1>>, <<k1, x1>>}

\* Ids are interchangeable; no liveness is checked here.
Ids == Permutations({a1, a2, a3}) \cup Permutations({c1, c2}) \cup Permutations({v1, v2})
=============================================================================
