SPECIFICATION Spec
CONSTANTS
    Session = {s1, s2, s3}
    Request = {r1, r2}
    None = None
PROPERTIES ReuseRevokesFamily ResetSignsOutEverywhere
