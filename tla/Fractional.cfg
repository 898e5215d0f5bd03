\* Three operations over six operands, denormalised ones included.
CONSTANTS
    Operands <- MCOperands
    MaxOps = 3
SPECIFICATION Spec
INVARIANT ArithmeticExact
