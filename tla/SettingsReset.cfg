\* One administrator saves while another resets the application.
CONSTANTS
    Clients = {c1}
    MaxSaves = 3
SPECIFICATION Spec
INVARIANT
    EnabledIsComplete
CHECK_DEADLOCK FALSE
