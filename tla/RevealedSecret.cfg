SPECIFICATION Spec
CONSTANTS
    Secrets = {s1, s2, s3}
    Calls = {c1}
INVARIANT RevealedSecretWorks
\* There are only so many secrets.
CHECK_DEADLOCK FALSE
