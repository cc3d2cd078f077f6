---------------------------- MODULE ServicesProofs ----------------------------
(***************************************************************************)
(* The composition of the wizard, master data management and certification *)
(* implements each of them: a step of it is a step of one part, and leaves *)
(* the variables of the others alone.  So what is proved of a part holds   *)
(* of the composition.                                                     *)
(***************************************************************************)
EXTENDS MCServices, AgreementWizardProofs, MdmProofs, CertificationProofs

\* Each behaviour of the composition is one of every part.
THEOREM ServicesImplementParts == ServicesSpec => WizardSpec /\ MdmSpec /\ CertSpec
<1>1. ServicesInit => WizardInit /\ MdmInit /\ CertInit
  BY DEF ServicesInit
<1>2. [ServicesNext]_ServicesVars => [WizardNext]_wizardVars /\ [MdmNext]_mdmVars /\ [CertNext]_certVars
  BY DEF ServicesNext, ServicesVars
<1> QED BY <1>1, <1>2, PTL DEF ServicesSpec, WizardSpec, MdmSpec, CertSpec

\* The parts keep their types side by side: no submission, match run or
\* propagation, however it is cut short, leaves a row or a local of another kind
\* than its table or handler has.
THEOREM ServicesTypes == ServicesSpec => []ServicesTypeOK
<1>1. WizardTypeOK /\ MdmTypeOK /\ CertTypeOK => ServicesTypeOK
  BY DEF ServicesTypeOK
<1> QED BY <1>1, ServicesImplementParts, WizardTypes, MdmTypes, CertTypes, PTL

\* What the runs check of the composition.
THEOREM ServicesKeep ==
    ServicesSpec => /\ [](WalksWhatWasShown /\ CompletedIsSigned)
                    /\ []LinksAreSound
                    /\ ReviewerDataKept /\ LevelsArrive
BY ServicesImplementParts, WalksWhatWasShownAlways, CompletedIsSignedAlways,
   LinksAreSoundAlways, ReviewerDataAlwaysKept, LevelsArriveAlways, PTL

\* The two definitions of the runs are such workflows: their steps are in order,
\* and only `keep' persists an agreement.
LEMMA RunFormsAreStraight ==
    ASSUME Pages = {ask, keep, sign, done}, Forms = BothForms,
           ask # keep, ask # sign, ask # done, keep # sign, keep # done, sign # done
    PROVE  \A f \in Forms : Straight(f)
<1> DEFINE early == [p \in Pages |-> IF p = ask THEN 3 ELSE IF p = keep THEN 2
                                     ELSE IF p = sign THEN 1 ELSE 0]
           never == [p \in Pages |-> IF p = sign THEN 2 ELSE IF p = ask THEN 1 ELSE 0]
<1>1. Straight(KeepEarly)
  <2>1. early \in [Pages -> Nat]
    OBVIOUS
  <2>2. Ordered(KeepEarly, early)
    BY WizardAssumption DEF Ordered, KeepEarly
  <2>3. \A p, q \in Pages : KeepEarly.kind[p] = "persist" /\ KeepEarly.kind[q] = "persist" => p = q
    BY DEF KeepEarly, Kinds
  <2> QED BY <2>1, <2>2, <2>3 DEF Straight
<1>2. Straight(KeepNever)
  <2>1. never \in [Pages -> Nat]
    OBVIOUS
  <2>2. Ordered(KeepNever, never)
    BY WizardAssumption DEF Ordered, KeepNever
  <2>3. \A p, q \in Pages : KeepNever.kind[p] = "persist" /\ KeepNever.kind[q] = "persist" => p = q
    BY DEF KeepNever, Kinds
  <2> QED BY <2>1, <2>2, <2>3 DEF Straight
<1> QED BY <1>1, <1>2 DEF BothForms

\* One agreement for each session, in the composition as the run instantiates
\* it, with any number of sessions, users, agreements and edits.
THEOREM ServicesOneAgreement ==
    ASSUME Pages = {ask, keep, sign, done}, Forms = BothForms,
           ask # keep, ask # sign, ask # done, keep # sign, keep # done, sign # done
    PROVE  ServicesSpec => []OneAgreementPerSession
<1>1. WizardSpec => []OneAgreementPerSession
  BY RunFormsAreStraight, OneAgreementAlways
<1> QED BY <1>1, ServicesImplementParts, PTL

=============================================================================
