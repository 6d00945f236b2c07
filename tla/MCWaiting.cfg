SPECIFICATION Spec
PROPERTIES PageComes LoadingEnds ConnectionsComeBack
\* Every job may have ended.
CHECK_DEADLOCK FALSE
