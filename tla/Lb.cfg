SPECIFICATION Spec
CONSTANTS
    Handlers = {h1, h2}
    Services = {s1, s2}
    TGs = {t1, t2}
    Quiet = TRUE
    MaxChanges = 2
SYMMETRY Symmetry
INVARIANT TypeOK
PROPERTIES OnlyOfService NoTrafficCut DoneMeansGone
