---- MODULE MC_Settings ----
(* Instances of Settings for TLC: .env files of up to two lines. *)
EXTENDS Settings, TLC

CONSTANTS a, b

Lines ==
    {On("MINING_POOL_URL", a), On("SERVER_PUBLIC_PORT", a),
     On("SERVER_PUBLIC_PORT", b), Off("SERVER_PUBLIC_PORT"),
     On("LOGIN_PASSWORD", a), On("LEASE_TOKEN_SECRET", a), On("JWT_SECRET", a)}
ShortFiles == UNION {[1 .. n -> Lines] : n \in 0 .. 2}
Symmetry == Permutations(Generated)
====
