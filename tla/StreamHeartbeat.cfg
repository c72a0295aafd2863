SPECIFICATION StreamSpec
CONSTANTS
    User = {u1}
    Everyone = Everyone
    Nobody = Nobody
    Note = {n1}
    Sender = {s1}
    Connection = {k1}
INVARIANT HeartbeatKept
