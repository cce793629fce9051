SPECIFICATION SessionsSpec
CONSTANTS
    Account = {a, b}
    NoAccount = NoAccount
    Nonce = {n1, n2}
    NoNonce = NoNonce
    Token = {t1, t2}
    NoToken = NoToken
    Handler = {h1, h2}
SYMMETRY SessionsSymmetry
INVARIANTS
    SessionsAreSigned
    SettledIsOwn
