SPECIFICATION Spec
CONSTANTS
    Loaders = {l1, l2}
    Readers = {r1}
    alice = alice
    bob = bob
    notes = notes
    Users = {alice, bob}
    Routes = {notes}
    Rows <- MCRows
    NullRows <- MCNullRows
    Methods = {"GET", "POST", "DELETE", "TRACE"}
    Nobody = Nobody
    Nothing = Nothing
PROPERTY DeleteIsDelete
