\* Two groups, one edit and one session beside the request.
SPECIFICATION Spec
CONSTANTS
    g1 = g1  g2 = g2  ann = ann  bob = bob  google = google  good = good
    Groups = {g1, g2}
    People = {ann, bob}
    Client = ann
    Providers = {google}
    Creds = {good}
    Rows <- MCRows
    Absent = Absent
    MaxEdits = 1
    DbFails = TRUE
INVARIANTS VTypeOK  DenyHonoured NoLoginLoop DeadSessionIsNone
SYMMETRY GroupSymmetry
