SPECIFICATION Spec
CONSTANTS
    a1 = a1
    a2 = a2
    before = before
    after = after
    Analysers = {a1, a2}
    Contexts = {before, after}
    Verdicts = {"validated"}
    Threshold = 1
    Recovery = 1
PROPERTIES AloneCacheFits AloneNeverRefused
SYMMETRY Symmetric
