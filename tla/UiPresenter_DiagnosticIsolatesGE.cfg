CONSTANT MaxPicture=3
SPECIFICATION UiSpec
INVARIANTS DiagnosticIsolatesGE
