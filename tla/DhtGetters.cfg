CONSTANTS
    DhtBytes = {20, 60, 80}
SPECIFICATION DhtSpec
INVARIANT GettersNamed
