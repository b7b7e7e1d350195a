SPECIFICATION Spec
CONSTANTS
    Evidences <- MCEvidences
    Emissions <- MCEmissions
    Changes <- MCChanges
    Versions <- MCVersions
    MaxEdits = 2
INVARIANTS
    TypeOK
    OrderInvisible
    FindingsKeepTheirClaims
    OneCanonicalForm
    AcceptedIsGrounded
    AcceptedIsAcyclic
    AbsenceIsProved
    CommandsAgree
    ReevaluationRestores
