SPECIFICATION Spec
INVARIANTS TypeOK RefsBalanced NoDanglingContextButGoaway OutSettledOnce
