SPECIFICATION Spec
CONSTANTS
    s1 = s1
    s2 = s2
    d1 = d1
    d2 = d2
    u1 = u1
    u2 = u2
    x = x
    y = y
    Null = Null
    Sources <- TwoSources
    Users <- TwoUsers
    Names <- TwoNames
    Departments <- TwoDepartments
    Nowhere = Nowhere
    MaxBegins = 3
    MaxChanges = 2
SYMMETRY Symmetry
CHECK_DEADLOCK FALSE
INVARIANTS
    OneCurrentEach
    DepartmentsOfUsersShown
PROPERTIES
    UsersNeverGoBack
    MartNeverGoesBack
    RunIsPublished
