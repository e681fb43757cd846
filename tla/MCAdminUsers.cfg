SPECIFICATION Spec
CONSTANTS
    Users = {u1, u2, u3}
    Requests = {r1, r2}
    Logins = {l1, l2}
    Dtos <- MCDtos
    NoOne = NoOne
SYMMETRY Symmetry
INVARIANTS TypeOK LastSuperAdmin DeletedAreInactive OnlyLateSessionsSurvive
PROPERTIES FieldsChangeOnlyOnRequest
CHECK_DEADLOCK FALSE
