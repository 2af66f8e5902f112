\* The ring of three pages, which one writer can lap twice; the dump device; the
\* replaced page; a grid of numbers; keys of two sizes.
SPECIFICATION GuestSpec
CONSTANTS
    PAGE_SIZE = 4
    RING_PAGES = 3
    DATA_PAGES = 2
    Writers = {w1, w2}
    Readers = {r1}
    MAX_CALLS = 3
    w1 = w1
    c1 = c1
    td = td
    other = other
    g1 = g1
    g2 = g2
    h1 = h1
    h2 = h2
INVARIANTS
    
    StreamArrives
    
    NumbersExact
    SignatureVerifies

    
\* Readers of an empty ring spin for ever, and all work is bounded.
CHECK_DEADLOCK FALSE
