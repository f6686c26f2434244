\* A client with copies, files replaced by later ones, both builds.
SPECIFICATION Spec
CONSTANTS
    Paths = {"/index.html", "/app.js"}
    Uris = {"/", "/app.js"}
    Dates <- AroundLeapDay
    Sizes = {1, 2}
    MaxBodies = 3
    Backwards = FALSE
    OpenErrors = FALSE
    Years <- FatYears
INVARIANT DatesComeBack
PROPERTY ValidatedIsCurrent
