\* One publish and one subscribe, in either order, both with a timeout; a
\* subscription starts one negotiation, and each side finds one candidate.
SPECIFICATION LiveSpec
CONSTANTS
    p1 = p1
    s1 = s1
    None = None
    Pubs = {p1}
    Subs = {s1}
    Impatient = {p1, s1}
    Walk <- MCWalk
    MaxAccepts = 1
    MaxCands = 1
INVARIANTS NoneStranded UnlockSafe PublicationExists Paired
 
CHECK_DEADLOCK FALSE
