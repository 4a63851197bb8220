\* The flag assume-role-arn is left at its default.
SPECIFICATION Spec
CONSTANTS
  RPCs = {r1}
  Configs <- MCDefaults
  parallelFetchers = 1
INVARIANT AssumeRoleOptional
